---- MODULE Spec2Model ----
(***************************************************************************)
(* Control plane of SE-SS25/controller: leader/shadow failover over the    *)
(* controller_status row, and the migration dispatch pipeline              *)
(* (RunMigration) behind POST /migrate.                                    *)
(*                                                                         *)
(* Two specifications share the variables of this module:                  *)
(*   SpecCtl  - main(), checkControllerUp, heartbeat, Writer.Heartbeat and *)
(*              Writer.RegisterController as statement-level transactions; *)
(*   SpecMig  - migrationHandler and Scheduler.RunMigration over           *)
(*              migration_worker, db_mapping and db_migration.             *)
(* The store is PostgreSQL; the Writer opens every transaction with        *)
(* pgx.TxOptions{} and so runs at the server's default isolation level,    *)
(* READ COMMITTED: each statement sees the rows committed when it starts,  *)
(* and a DELETE waits for a row that another open transaction has deleted. *)
(***************************************************************************)
EXTENDS Integers, Sequences, FiniteSets, TLC

\* ---------------------------------------------------------------- bounds
Inst == {"A", "B"}

MaxTime == 15
TickStep == 5
MaxStoreFailures == 3
MaxCalls == 2
MaxInstances == 27
MaxMapCalls == 2
MaxMapFailures == 1
MaxWrkFailures == 1
MaxReports == 1
MaxErrors == 6
MaxFailTicks == 2
MaxHttpCalls == 3
MaxSpawns == 2

\* ------------------------------------------------------ program constants
ControllerHeartbeatTimeout == 10
MaxRetries == 3
\* time.Time{} lies two thousand years before the run; every value far
\* enough back behaves alike, the clock of the run starting at 0
ZeroTime == -2000000000
WorkerHeartbeatTimeout == 5
CheckWorkerBackoff == 5
MinimumWorkerUptime == 5
MWorkerHeartbeatTimeout == 10
FailureWindow == 1800
FailureRateSleep == 300
FailureThreshold == 3
MWorkerChanCap == 10

LeaderLoops == {"EvaluateWorkerState", "CheckFailureRate"}
\* no check has ended yet, or the last one read no row
NoAge == [row |-> FALSE, age |-> 0]

VARIABLES
    \* ---- control plane
    isShadow,           \* Controller.isShadow of every instance
    pc,                 \* position of every instance's main goroutine
    hb,                 \* "loop" while Controller.heartbeat is running
    loops,              \* goroutines main() started after checkControllerUp
    tx,                 \* the open Writer transaction of every instance
    tries,              \* iteration of the retry wrapper in progress
    controller_status,  \* committed rows of table controller_status
    now,                \* wall clock, seconds
    storeFailures,      \* engine failures injected so far
    obsAge,             \* what the last CheckControllerUp read: a row, its age
    promoted,           \* instances that went from shadow to leader
    fatal,              \* message of the logger.Fatal that ended an instance
    \* ---- migration dispatch
    migration_worker,   \* ids of the rows of table migration_worker
    db_mapping,         \* rows of table db_mapping
    db_migration,       \* rows of table db_migration
    mWorkerChan,        \* DInterface.mWorkerChan: spawn requests not yet taken
    call,               \* the POST /migrate requests and where each one is
    \* ---- both
    shadowWrites,       \* tables an instance wrote while its flag was true
    \* ---- startup mapping
    db_instance,        \* urls of table db_instance, in SELECT order
    mapCall,            \* the POST /mapping/startup request in progress
    \* ---- worker liveness
    worker_metric,      \* rows of table worker_metric
    migration_worker_hb, \* last_heartbeat of the rows of migration_worker
    migration_worker_jobs, \* rows of table migration_worker_jobs
    sweep,              \* position of every instance's liveness goroutine
    subtasks,           \* the re-check goroutines EvaluateWorkerState started
    rechecks,           \* what every finished re-check re-read and did
    reports,            \* heartbeats the workers wrote so far
    \* ---- failure rate
    db_conn_err,        \* rows of table db_conn_err
    failCheck,          \* position of every instance's failure-rate goroutine
    \* ---- retrying wrappers
    wrap,               \* the wrapper call in progress
    \* ---- GET /state and GET /health
    httpCall,           \* the request in progress and what earlier ones got
    \* ---- launcher
    createReq,          \* the CreateRequests and their callers
    run                 \* position of the goroutine DInterface.Run

ctlVars == <<isShadow, pc, hb, loops, tx, tries, controller_status, now,
             storeFailures, obsAge, promoted, fatal>>

migVars == <<migration_worker, db_mapping, db_migration, mWorkerChan, call>>

mapVars == <<db_instance, mapCall>>

wrkVars == <<worker_metric, migration_worker_hb, migration_worker_jobs, sweep,
             subtasks, rechecks, reports>>

failVars == <<db_conn_err, failCheck>>

extVars == <<wrap, httpCall, createReq, run>>

auxVars == <<mapVars, wrkVars, failVars, extVars>>

vars == <<ctlVars, migVars, shadowWrites, auxVars>>

\* ------------------------------------------------------- store helpers
Ids(rows) == {r.id : r \in rows}

NoTx == [op |-> "none", step |-> "none", scaling |-> FALSE,
         targets |-> {}, deleted |-> {}]

BeginTx(op) == [NoTx EXCEPT !.op = op, !.step = "GetControllerState"]

\* row identity: the smallest identity that no committed row has and no
\* open transaction refers to
UsedIds == Ids(controller_status)
             \cup UNION {tx[j].targets \cup tx[j].deleted : j \in Inst}

FreshId == CHOOSE n \in 0..(2 * Cardinality(Inst)) :
              /\ n \notin UsedIds
              /\ \A m \in 0..(2 * Cardinality(Inst)) : m \notin UsedIds => n <= m

\* time.Time.Sub
Sub(t, u) == t - u

\* a classification that looks at the error of the statement only
MustIgnoresRowsAffected(code, rowsAffected) ==
    IF code = "23505" THEN [err |-> "UNIQUE violation", reconcilable |-> FALSE]
    ELSE IF code = "23503"
      THEN [err |-> "FOREIGN KEY violation", reconcilable |-> FALSE]
    ELSE IF code = "23502"
      THEN [err |-> "NOT NULL violation", reconcilable |-> FALSE]
    ELSE IF code # "" THEN [err |-> "unknown pg error", reconcilable |-> TRUE]
    ELSE [err |-> "", reconcilable |-> FALSE]

\* utils.Must: the DbError for the SQLSTATE of a statement ("" when it ran)
\* and the number of rows it affected
Must(code, rowsAffected) ==
    IF code = "23505" THEN [err |-> "UNIQUE violation", reconcilable |-> FALSE]
    ELSE IF code = "23503"
      THEN [err |-> "FOREIGN KEY violation", reconcilable |-> FALSE]
    ELSE IF code = "23502"
      THEN [err |-> "NOT NULL violation", reconcilable |-> FALSE]
    ELSE IF code # "" THEN [err |-> "unknown pg error", reconcilable |-> TRUE]
    ELSE IF rowsAffected = 0
      THEN [err |-> "no rows affected", reconcilable |-> FALSE]
    ELSE [err |-> "", reconcilable |-> FALSE]

\* how the retry wrappers read a DbError
Outcome(e) == IF e.err = "" THEN "ok"
              ELSE IF e.reconcilable THEN "reconcilable" ELSE "terminal"

TimedOutGe(age) == age >= ControllerHeartbeatTimeout

\* reconciler.go: timeSinceHeartbeat > timeout
TimedOut(age) == age > ControllerHeartbeatTimeout

\* a status whose heartbeat is not older than any clock reading
ZeroRowFresh == [id |-> -1, scaling |-> FALSE, last_heartbeat |-> MaxTime]

\* sqlc.ControllerStatus{}: what the reader wrapper hands back after its
\* last failed attempt
ZeroRow == [id |-> -1, scaling |-> FALSE, last_heartbeat |-> ZeroTime]

\* ------------------------------------------------ requests to /migrate
Calls == 1..MaxCalls

\* query parameters (from, to, goal_url) a request may carry: one without
\* from, two that name a mapping, one that names none
Requests == {[from |-> "",  to |-> "m", goalUrl |-> "u1"],
             [from |-> "a", to |-> "m", goalUrl |-> "u1"],
             [from |-> "n", to |-> "z", goalUrl |-> "u2"],
             [from |-> "n", to |-> "m", goalUrl |-> "u1"]}

\* db_mapping as the startup mapping leaves it for two database instances
StartupMapping == {[id |-> "m1", url |-> "u1", from |-> "a"],
                   [id |-> "m2", url |-> "u2", from |-> "n"]}

IdleCall == [pc |-> "idle", inst |-> "", from |-> "", to |-> "",
             goalUrl |-> "", migrationWorkerId |-> "", newWorker |-> TRUE,
             tries |-> 1, status |-> 0, returned |-> "", err |-> "",
             found |-> {}, addedWorker |-> FALSE, job |-> {}]

\* the /mapping/startup request before it is sent.  dbInfos is what the
\* reader returned, wrote the rows this request inserted, failed the
\* mappings whose write the wrapper gave up on
IdleMapCall == [pc |-> "idle", inst |-> "", status |-> 0, calls |-> 0,
                dbInfos |-> <<>>, readFailed |-> FALSE, rangeMap |-> {},
                emptyAtStart |-> TRUE, wrote |-> {}, failed |-> {}]

\* the failure-rate goroutine before its call of CheckFailureRate; read
\* is what the last call read from db_conn_err
IdleFailCheck == [pc |-> "CheckFailureRate", invoked |-> 0, at |-> 0,
                  warnings |-> {}, read |-> {}]

\* the liveness goroutine before its first sweep
IdleSweep == [pc |-> "sleep", next |-> 0, start |-> 0]

\* the wrapper call before it starts.  calls counts the calls of the
\* wrapped method, slept lists the sleeps in milliseconds, errs the class
\* of what every call of the wrapped method returned; ret is the error the
\* wrapper returned ("nil" for none), zero whether it came with the zero
\* value; ctx is the context the caller passed
IdleWrap == [pc |-> "idle", kind |-> "", op |-> "", backoffType |-> "",
             backoffTypeInput |-> "", initialBackoff |-> 0, workerID |-> "",
             i |-> 1, calls |-> 0, slept |-> <<>>, errs |-> <<>>,
             ret |-> "", zero |-> FALSE, ctx |-> "active"]

\* what GetSystemState returned; no call has returned anything yet
NoInfos == [panic |-> FALSE, infos |-> <<>>, err |-> ""]

\* the GET request before it is sent.  failed tells whether a wrapped read
\* of the call gave up, prior lists what the earlier calls of
\* GetSystemState returned and whether one of their reads gave up
IdleHttpCall == [pc |-> "idle", inst |-> "", path |-> "", status |-> 0,
                 calls |-> 0, failed |-> FALSE, result |-> NoInfos,
                 prior |-> <<>>]

\* the spawn requests a run may see
ReqIds == {ToString(k) : k \in 1..MaxSpawns}

\* make(chan error, n): an empty channel with room for n values
MakeChan(n) == [cap |-> n, buf |-> <<>>]

respChannelUnbuffered == MakeChan(0)

\* respChannel of SendMWorkerRequest
respChannel == MakeChan(1)

\* a CreateRequest before SendMWorkerRequest makes it.  replies lists what
\* the dispatcher sent on ResponseChan so far, caller is where the sender
\* of the request is, got what it received
IdleRequest == [pc |-> "unsent", ctx |-> "active", ResponseChan |-> MakeChan(0),
                funcRes |-> <<>>, worker |-> "none", replies |-> <<>>,
                caller |-> "none", got |-> ""]

\* DInterface.Run at its outer select
IdleRun == [pc |-> "select", req |-> ""]

\* ------------------------------------------------ control plane: Init
InitCtl ==
    /\ isShadow \in [Inst -> BOOLEAN]
    /\ pc = [i \in Inst |-> "boot"]
    /\ hb = [i \in Inst |-> "off"]
    /\ loops = [i \in Inst |-> {}]
    /\ tx = [i \in Inst |-> NoTx]
    /\ tries = [i \in Inst |-> 1]
    /\ controller_status = {}
    /\ now = 0
    /\ storeFailures = 0
    /\ obsAge = [i \in Inst |-> NoAge]
    /\ promoted = {}
    /\ fatal = [i \in Inst |-> ""]
    \* no migration was requested, no mapping written yet
    /\ migration_worker = {}
    /\ db_mapping = {}
    /\ db_migration = {}
    /\ mWorkerChan = <<>>
    /\ call = [c \in Calls |-> IdleCall]
    /\ shadowWrites = {}
    /\ db_instance = <<>>
    /\ mapCall = IdleMapCall
    /\ worker_metric = {}
    /\ migration_worker_hb = {}
    /\ migration_worker_jobs = {}
    /\ sweep = [i \in Inst |-> IdleSweep]
    /\ subtasks = {}
    /\ rechecks = {}
    /\ reports = 0
    /\ db_conn_err = {}
    /\ failCheck = [i \in Inst |-> IdleFailCheck]
    /\ wrap = IdleWrap
    /\ httpCall = IdleHttpCall
    /\ createReq = [q \in ReqIds |-> IdleRequest]
    /\ run = IdleRun

\* ------------------------------------- control plane: returns and Fatal
\* logger.Fatal: the process ends, and every goroutine with it
Fatal(i, msg) ==
    /\ pc' = [pc EXCEPT ![i] = "dead"]
    /\ hb' = [hb EXCEPT ![i] = "off"]
    /\ loops' = [loops EXCEPT ![i] = {}]
    /\ fatal' = [fatal EXCEPT ![i] = msg]

\* what the caller of the writer wrapper does with the value it returns:
\* main() after RegisterController, Controller.heartbeat after Heartbeat
Return(i, msg) ==
    /\ tx' = [tx EXCEPT ![i] = NoTx]
    /\ tries' = [tries EXCEPT ![i] = 1]
    /\ IF msg # ""
         THEN Fatal(i, msg)
         ELSE /\ UNCHANGED <<loops, fatal>>
              /\ IF tx[i].op = "RegisterController"
                   THEN /\ pc' = [pc EXCEPT ![i] = "checkControllerUp"]
                        /\ hb' = [hb EXCEPT ![i] = "loop"]
                   ELSE UNCHANGED <<pc, hb>>

\* WriterPerfectionist: nil and terminal errors return at once, a
\* reconcilable error is retried until MAX_RETRIES attempts were made
WriterPerfectionist(i, outcome, msg) ==
    IF outcome = "reconcilable" /\ tries[i] < MaxRetries
      THEN /\ tx' = [tx EXCEPT ![i] = BeginTx(tx[i].op)]
           /\ tries' = [tries EXCEPT ![i] = tries[i] + 1]
           /\ UNCHANGED <<pc, hb, loops, fatal>>
      ELSE Return(i, IF outcome = "ok" THEN "" ELSE msg)

\* ------------------------------------------- control plane: main()
\* main() taking the shadow out of its role while it boots
MainWritesFlag(i) ==
    /\ pc[i] = "boot"
    /\ IF isShadow[i]
         THEN /\ pc' = [pc EXCEPT ![i] = "checkControllerUp"]
              /\ UNCHANGED tx
         ELSE /\ pc' = [pc EXCEPT ![i] = "RegisterController"]
              /\ tx' = [tx EXCEPT ![i] = BeginTx("RegisterController")]
    /\ isShadow' = [isShadow EXCEPT ![i] = FALSE]
    /\ UNCHANGED auxVars
    /\ UNCHANGED <<hb, loops, tries, controller_status, now,
                   storeFailures, obsAge, promoted, fatal, shadowWrites, migVars>>

\* main(): a leader registers; a shadow goes straight to checkControllerUp
Main(i) ==
    /\ pc[i] = "boot"
    /\ IF isShadow[i]
         THEN /\ pc' = [pc EXCEPT ![i] = "checkControllerUp"]
              /\ UNCHANGED tx
         ELSE /\ pc' = [pc EXCEPT ![i] = "RegisterController"]
              /\ tx' = [tx EXCEPT ![i] = BeginTx("RegisterController")]
    /\ UNCHANGED auxVars
    /\ UNCHANGED <<isShadow, hb, loops, tries, controller_status, now,
                   storeFailures, obsAge, promoted, fatal, shadowWrites, migVars>>

\* main() once checkControllerUp has returned: the liveness goroutine, the
\* failure-rate goroutine, then select {}
StartLoops(i) ==
    /\ pc[i] = "checkControllerUp"
    /\ ~isShadow[i]
    /\ loops' = [loops EXCEPT ![i] = LeaderLoops]
    /\ pc' = [pc EXCEPT ![i] = "select"]
    /\ UNCHANGED auxVars
    /\ UNCHANGED <<isShadow, hb, tx, tries, controller_status, now,
                   storeFailures, obsAge, promoted, fatal, shadowWrites, migVars>>

\* Controller.heartbeat: one iteration calls the Heartbeat of the writer
Heartbeat(i) ==
    /\ hb[i] = "loop"
    /\ tx[i].op = "none"
    /\ tx' = [tx EXCEPT ![i] = BeginTx("Heartbeat")]
    /\ UNCHANGED auxVars
    /\ UNCHANGED <<isShadow, pc, hb, loops, tries, controller_status, now,
                   storeFailures, obsAge, promoted, fatal, shadowWrites, migVars>>

\* the read of the transaction when scaling is not carried over
TxGetControllerStateDropsScaling(i) ==
    /\ tx[i].step = "GetControllerState"
    /\ IF controller_status # {}
         THEN /\ tx' = [tx EXCEPT ![i].scaling = FALSE,
                                  ![i].step = "DeleteOldControllerHeartbeat"]
              /\ UNCHANGED <<pc, hb, loops, tries, fatal>>
         ELSE IF tx[i].op = "RegisterController"
                THEN /\ tx' = [tx EXCEPT ![i].scaling = FALSE,
                                         ![i].step = "CreateNewControllerHeartbeat"]
                     /\ UNCHANGED <<pc, hb, loops, tries, fatal>>
                ELSE WriterPerfectionist(i, "reconcilable",
                         "getting old controller state failed: no rows")
    /\ UNCHANGED auxVars
    /\ UNCHANGED <<isShadow, controller_status, now, storeFailures, obsAge,
                   promoted, shadowWrites, migVars>>

\* ------------------------- control plane: Writer transactions, by statement
\* GetControllerState inside Writer.Heartbeat / Writer.RegisterController
\* (SELECT ... LIMIT 1).  Heartbeat turns "no rows" into a reconcilable
\* error; RegisterController goes on with scaling = false and no DELETE.
TxGetControllerState(i) ==
    /\ tx[i].step = "GetControllerState"
    /\ IF controller_status # {}
         THEN /\ \E r \in controller_status :
                    tx' = [tx EXCEPT ![i].scaling = r.scaling,
                                     ![i].step = "DeleteOldControllerHeartbeat"]
              /\ UNCHANGED <<pc, hb, loops, tries, fatal>>
         ELSE IF tx[i].op = "RegisterController"
                THEN /\ tx' = [tx EXCEPT ![i].scaling = FALSE,
                                         ![i].step = "CreateNewControllerHeartbeat"]
                     /\ UNCHANGED <<pc, hb, loops, tries, fatal>>
                ELSE WriterPerfectionist(i, "reconcilable",
                         "getting old controller state failed: no rows")
    /\ UNCHANGED auxVars
    /\ UNCHANGED <<isShadow, controller_status, now, storeFailures, obsAge,
                   promoted, shadowWrites, migVars>>

\* DELETE FROM controller_status starts: the rows its snapshot shows
TxDeleteOldControllerHeartbeat(i) ==
    /\ tx[i].step = "DeleteOldControllerHeartbeat"
    /\ tx' = [tx EXCEPT ![i].targets = Ids(controller_status),
                        ![i].step = "Must"]
    /\ UNCHANGED auxVars
    /\ UNCHANGED <<isShadow, pc, hb, loops, tries, controller_status, now,
                   storeFailures, obsAge, promoted, fatal, shadowWrites, migVars>>

\* the DELETE ends once no other open transaction holds one of its rows;
\* it affects the rows still there, and utils.Must turns zero rows
\* affected into a terminal error
TxMust(i) ==
    /\ tx[i].step = "Must"
    /\ \A j \in Inst \ {i} : tx[j].deleted \cap tx[i].targets = {}
    /\ LET affected == tx[i].targets \cap Ids(controller_status)
           oeErr == Must("", Cardinality(affected))
       IN  IF oeErr.err # ""
             THEN WriterPerfectionist(i, Outcome(oeErr), oeErr.err)
             ELSE /\ tx' = [tx EXCEPT ![i].deleted = affected,
                                      ![i].step = "CreateNewControllerHeartbeat"]
                  /\ UNCHANGED <<pc, hb, loops, tries, fatal>>
    /\ UNCHANGED auxVars
    /\ UNCHANGED <<isShadow, controller_status, now, storeFailures, obsAge,
                   promoted, shadowWrites, migVars>>

\* the INSERT and the commit without the deletes of the transaction
TxCreateNewControllerHeartbeatKeepsOld(i) ==
    /\ tx[i].step = "CreateNewControllerHeartbeat"
    /\ controller_status' =
          controller_status
             \cup {[id |-> FreshId, scaling |-> tx[i].scaling,
                    last_heartbeat |-> now]}
    /\ shadowWrites' = IF isShadow[i]
                         THEN shadowWrites \cup {"controller_status"}
                         ELSE shadowWrites
    /\ WriterPerfectionist(i, "ok", "")
    /\ UNCHANGED auxVars
    /\ UNCHANGED <<isShadow, now, storeFailures, obsAge, promoted, migVars>>

\* INSERT INTO controller_status (scaling, last_heartbeat) and tx.Commit.
\* The table has no key and no constraint, so the insert always affects
\* one row; no other transaction sees it before the commit, which makes
\* the deletes and the insert visible together.
TxCreateNewControllerHeartbeat(i) ==
    /\ tx[i].step = "CreateNewControllerHeartbeat"
    /\ controller_status' =
          {r \in controller_status : r.id \notin tx[i].deleted}
             \cup {[id |-> FreshId, scaling |-> tx[i].scaling,
                    last_heartbeat |-> now]}
    /\ shadowWrites' = IF isShadow[i]
                         THEN shadowWrites \cup {"controller_status"}
                         ELSE shadowWrites
    /\ WriterPerfectionist(i, "ok", "")
    /\ UNCHANGED auxVars
    /\ UNCHANGED <<isShadow, now, storeFailures, obsAge, promoted, migVars>>

\* BeginTx, a statement or Commit fails in the engine: reconcilable; the
\* deferred Rollback drops what the transaction did
TxEngineError(i) ==
    /\ tx[i].op # "none"
    /\ storeFailures < MaxStoreFailures
    /\ storeFailures' = storeFailures + 1
    /\ WriterPerfectionist(i, Outcome(Must("other", 0)), Must("other", 0).err)
    /\ UNCHANGED auxVars
    /\ UNCHANGED <<isShadow, controller_status, now, obsAge, promoted,
                   shadowWrites, migVars>>

\* ------------------------------------- control plane: the shadow's check
\* one attempt of Reader.GetControllerState: a committed row, or an error
\* (pgx.ErrNoRows on an empty table, an engine failure otherwise)
GetControllerState ==
    {[ok |-> TRUE, row |-> r] : r \in controller_status}
      \cup (IF controller_status = {} \/ storeFailures < MaxStoreFailures
              THEN {[ok |-> FALSE, row |-> ZeroRow]}
              ELSE {})

\* One attempt of the reader wrapper inside Reconciler.CheckControllerUp,
\* and, on the attempt that ends the call, the rest of the iteration of
\* Controller.checkControllerUp.  ReaderPerfectionist.GetControllerState
\* declares err again inside its loop, so after MAX_RETRIES failures it
\* returns the zero ControllerStatus with a nil error; CheckControllerUp
\* then measures the age of the zero time.  ErrControllerCrashed makes the
\* caller clear the flag and call heartbeat, which never returns.
CheckControllerUp(i) ==
    /\ pc[i] = "checkControllerUp"
    /\ isShadow[i]
    /\ \E o \in GetControllerState :
         /\ storeFailures' = IF ~o.ok /\ controller_status # {}
                               THEN storeFailures + 1
                               ELSE storeFailures
         /\ IF ~o.ok /\ tries[i] < MaxRetries
              THEN /\ tries' = [tries EXCEPT ![i] = tries[i] + 1]
                   /\ UNCHANGED <<isShadow, pc, hb, obsAge, promoted>>
              ELSE LET timeSinceHeartbeat == Sub(now, o.row.last_heartbeat)
                   IN  /\ tries' = [tries EXCEPT ![i] = 1]
                       /\ obsAge' = [obsAge EXCEPT ![i] =
                              IF o.ok
                                THEN [row |-> TRUE, age |-> timeSinceHeartbeat]
                                ELSE NoAge]
                       /\ IF TimedOut(timeSinceHeartbeat)
                            THEN /\ isShadow' = [isShadow EXCEPT ![i] = FALSE]
                                 /\ promoted' = promoted \cup {i}
                                 /\ pc' = [pc EXCEPT ![i] = "heartbeat"]
                                 /\ hb' = [hb EXCEPT ![i] = "loop"]
                            ELSE UNCHANGED <<isShadow, pc, hb, promoted>>
    /\ UNCHANGED auxVars
    /\ UNCHANGED <<loops, tx, controller_status, now, fatal, shadowWrites, migVars>>

\* time passes, TickStep seconds at a time
Tick ==
    /\ now + TickStep <= MaxTime
    /\ now' = now + TickStep
    /\ UNCHANGED auxVars
    /\ UNCHANGED <<isShadow, pc, hb, loops, tx, tries, controller_status,
                   storeFailures, obsAge, promoted, fatal, shadowWrites, migVars>>

\* the steps an instance takes by itself
Step(i) ==
    \/ Main(i)
    \/ StartLoops(i)
    \/ Heartbeat(i)
    \/ TxGetControllerState(i)
    \/ TxDeleteOldControllerHeartbeat(i)
    \/ TxMust(i)
    \/ TxCreateNewControllerHeartbeat(i)
    \/ CheckControllerUp(i)

NextCtl ==
    \/ \E i \in Inst : Step(i)
    \/ \E i \in Inst : TxEngineError(i)
    \/ Tick

SpecCtl == InitCtl /\ [][NextCtl]_vars

\* the Go scheduler runs every goroutine that can run
FairSpecCtl == SpecCtl /\ \A i \in Inst : WF_vars(Step(i))

\* =========================================================== POST /migrate
\* http.ResponseWriter.WriteHeader: only the first call sets the status
WriteHeader(status, code) == IF status = 0 THEN code ELSE status

\* uuid.New().String() in call c
NewUuid(c) == ToString(c)

\* RunMigration returns err ("" for nil) and migrationHandler answers:
\* 500 with the error text, or 204
RunMigrationReturns(r, err) ==
    [r EXCEPT !.pc = "done",
              !.tries = 1,
              !.err = err,
              !.returned = IF err = "" THEN "nil" ELSE "error",
              !.status = WriteHeader(r.status, IF err = "" THEN 204 ELSE 500)]

\* the loop of a WriterPerfectionist method inside RunMigration
WriterRetry(r, oeErr) ==
    IF oeErr.reconcilable /\ r.tries < MaxRetries
      THEN [r EXCEPT !.tries = r.tries + 1]
      ELSE RunMigrationReturns(r, oeErr.err)

\* whether the next store operation may fail in the engine
EngineOutcomes == IF storeFailures < MaxStoreFailures
                    THEN {TRUE, FALSE}
                    ELSE {FALSE}

\* the instance of call c is a shadow: what it writes is a shadow's write
ShadowWrote(c, table) ==
    IF isShadow[call[c].inst] THEN shadowWrites \cup {table} ELSE shadowWrites

\* migrationHandler up to the call of RunMigration.  A shadow writes the
\* header 403 and goes on; a missing parameter ends the request with 400.
MigrationHandler(c) ==
    /\ call[c].pc = "idle"
    /\ \A d \in Calls : d < c => call[d].pc # "idle"
    /\ \E i \in Inst, q \in Requests :
         LET r == [call[c] EXCEPT
                      !.inst = i, !.from = q.from, !.to = q.to,
                      !.goalUrl = q.goalUrl,
                      !.status = IF isShadow[i] THEN WriteHeader(0, 403) ELSE 0]
         IN  call' = [call EXCEPT ![c] =
                 IF q.from = "" \/ q.to = "" \/ q.goalUrl = ""
                   THEN [r EXCEPT !.pc = "done",
                                  !.status = WriteHeader(r.status, 400)]
                   ELSE [r EXCEPT !.pc = "GetFreeMigrationWorker"]]
    /\ UNCHANGED auxVars
    /\ UNCHANGED <<ctlVars, migration_worker, db_mapping, db_migration,
                   mWorkerChan, shadowWrites>>

\* (SELECT id FROM migration_worker EXCEPT SELECT m_worker_id FROM db_migration)
FreeMigrationWorkers ==
    migration_worker \ {m.m_worker_id : m \in db_migration}

\* Reader.GetFreeMigrationWorker: one of the free workers (LIMIT 1),
\* pgx.ErrNoRows when there is none, or an engine failure
ReaderGetFreeMigrationWorker ==
    {[err |-> "", worker |-> w] : w \in FreeMigrationWorkers}
      \cup (IF FreeMigrationWorkers = {}
              THEN {[err |-> "ErrNoRows", worker |-> ""]} ELSE {})
      \cup (IF storeFailures < MaxStoreFailures
              THEN {[err |-> "engine", worker |-> ""]} ELSE {})

SwitchNewWorker(c, res) == [id |-> NewUuid(c), newWorker |-> TRUE]

\* RunMigration, the cases ErrNoRows and nil of its switch
Switch(c, res) ==
    IF res.err = "ErrNoRows"
      THEN [id |-> NewUuid(c), newWorker |-> TRUE]
      ELSE [id |-> res.worker, newWorker |-> FALSE]

\* RunMigration from GetFreeMigrationWorker to the next store operation.
\* With no free worker the next operation is AddMigrationWorker.  With a
\* worker to reuse the test of newWorker follows at once: a spawn request
\* goes to the launcher when it is true, AddMigrationJob comes next when
\* it is false.
GetFreeMigrationWorker(c) ==
    /\ call[c].pc = "GetFreeMigrationWorker"
    /\ \E res \in ReaderGetFreeMigrationWorker :
         /\ storeFailures' = IF res.err = "engine"
                               THEN storeFailures + 1 ELSE storeFailures
         /\ IF res.err = "engine"
              THEN /\ call' = [call EXCEPT ![c] = RunMigrationReturns(call[c],
                                 "could not get migration worker from database")]
                   /\ UNCHANGED mWorkerChan
              ELSE LET sw == Switch(c, res)
                       r == [call[c] EXCEPT
                               !.migrationWorkerId = sw.id,
                               !.newWorker = sw.newWorker,
                               !.found = IF res.err = "" THEN {res.worker} ELSE {}]
                   IN  IF res.err = "ErrNoRows"
                         THEN /\ call' = [call EXCEPT ![c] =
                                            [r EXCEPT !.pc = "AddMigrationWorker"]]
                              /\ UNCHANGED mWorkerChan
                         ELSE IF r.newWorker
                           THEN /\ mWorkerChan' = Append(mWorkerChan, r.migrationWorkerId)
                                /\ call' = [call EXCEPT ![c] =
                                              [r EXCEPT !.pc = "ChanWihTimeout"]]
                           ELSE /\ UNCHANGED mWorkerChan
                                /\ call' = [call EXCEPT ![c] =
                                              [r EXCEPT !.pc = "AddMigrationJob"]]
    /\ UNCHANGED auxVars
    /\ UNCHANGED <<isShadow, pc, hb, loops, tx, tries, controller_status, now,
                   obsAge, promoted, fatal, migration_worker, db_mapping,
                   db_migration, shadowWrites>>

\* One attempt of Writer.AddMigrationWorker under its retry wrapper:
\* INSERT INTO migration_worker, whose primary key is id, with
\* last_heartbeat = time.Now().  After the commit
\* the method reaches "select {}" and blocks for ever, so no attempt ever
\* returns nil; an attempt that failed returns its error to the wrapper.
AddMigrationWorker(c) ==
    /\ call[c].pc = "AddMigrationWorker"
    /\ \E engine \in EngineOutcomes :
         LET id == call[c].migrationWorkerId
             oeErr == IF engine THEN Must("other", 0)
                      ELSE IF id \in migration_worker THEN Must("23505", 0)
                      ELSE Must("", 1)
         IN  /\ storeFailures' = IF engine THEN storeFailures + 1
                                           ELSE storeFailures
             /\ IF oeErr.err = ""
                  THEN /\ migration_worker' = migration_worker \cup {id}
                       /\ migration_worker_hb' = migration_worker_hb \cup
                             {[id |-> id,
                               last_heartbeat |-> [valid |-> TRUE, time |-> now]]}
                       /\ shadowWrites' = ShadowWrote(c, "migration_worker")
                       /\ call' = [call EXCEPT ![c].pc = "select {}",
                                               ![c].addedWorker = TRUE]
                  ELSE /\ UNCHANGED <<migration_worker, migration_worker_hb,
                                      shadowWrites>>
                       /\ call' = [call EXCEPT ![c] = WriterRetry(call[c], oeErr)]
    /\ UNCHANGED <<mapVars, failVars, extVars, worker_metric,
                   migration_worker_jobs, sweep, subtasks, rechecks, reports>>
    /\ UNCHANGED <<isShadow, pc, hb, loops, tx, tries, controller_status, now,
                   obsAge, promoted, fatal, db_mapping, db_migration,
                   mWorkerChan>>

CreateMigrationJobMappingTo(url, from, to, mWorkerId) ==
    {[id |-> m.id, url |-> m.url, m_worker_id |-> mWorkerId,
      from |-> m.from, to |-> m.from, status |-> "waiting"] :
        m \in {x \in db_mapping : x.url = url /\ x.from = from}}

CreateMigrationJobAnyFrom(url, from, to, mWorkerId) ==
    {[id |-> m.id, url |-> m.url, m_worker_id |-> mWorkerId,
      from |-> m.from, to |-> to, status |-> "waiting"] :
        m \in {x \in db_mapping : x.url = url}}

\* CreateMigrationJob: INSERT INTO db_migration ... SELECT ... FROM
\* db_mapping WHERE url = $1 AND "from" = $2; the rows it would insert
CreateMigrationJob(url, from, to, mWorkerId) ==
    {[id |-> m.id, url |-> m.url, m_worker_id |-> mWorkerId,
      from |-> m.from, to |-> to, status |-> "waiting"] :
        m \in {x \in db_mapping : x.url = url /\ x.from = from}}

UniqueWithoutWorker(n, m) ==
    n.id = m.id \/ n.from = m.from \/ n.to = m.to

\* db_migration: id PRIMARY KEY, m_worker_id UNIQUE, "from" UNIQUE, "to" UNIQUE
Unique(n, m) ==
    n.id = m.id \/ n.m_worker_id = m.m_worker_id
       \/ n.from = m.from \/ n.to = m.to

\* the insert into a db_migration without the reference to migration_worker
InsertDbMigrationNoReference(rows) ==
    IF \E n \in rows : \E m \in db_migration : Unique(n, m) THEN "23505"
    ELSE ""

\* the SQLSTATE of inserting rows into db_migration ("" when they go in):
\* the unique indexes are checked row by row, the reference to
\* migration_worker at the end of the statement
InsertDbMigration(rows) ==
    IF \E n \in rows : \E m \in db_migration : Unique(n, m) THEN "23505"
    ELSE IF \E n \in rows : n.m_worker_id \notin migration_worker THEN "23503"
    ELSE ""

\* One attempt of Writer.AddMigrationJob under its retry wrapper; nil ends
\* RunMigration with nil, a terminal error or the last reconcilable one
\* ends it with that error.
AddMigrationJob(c) ==
    /\ call[c].pc = "AddMigrationJob"
    /\ \E engine \in EngineOutcomes :
         LET r == call[c]
             rows == CreateMigrationJob(r.goalUrl, r.from, r.to,
                                        r.migrationWorkerId)
             oeErr == IF engine THEN Must("other", 0)
                      ELSE Must(InsertDbMigration(rows), Cardinality(rows))
         IN  /\ storeFailures' = IF engine THEN storeFailures + 1
                                           ELSE storeFailures
             /\ IF oeErr.err = ""
                  THEN /\ db_migration' = db_migration \cup rows
                       /\ shadowWrites' = ShadowWrote(c, "db_migration")
                       /\ call' = [call EXCEPT ![c] =
                             RunMigrationReturns([r EXCEPT !.job = Ids(rows)], "")]
                  ELSE /\ UNCHANGED <<db_migration, shadowWrites>>
                       /\ call' = [call EXCEPT ![c] = WriterRetry(r, oeErr)]
    /\ UNCHANGED auxVars
    /\ UNCHANGED <<isShadow, pc, hb, loops, tx, tries, controller_status, now,
                   obsAge, promoted, fatal, migration_worker, db_mapping,
                   mWorkerChan>>

\* ------------------------------------------------ the migration pipeline
\* the startup mapping is written; migration_worker is empty or holds the
\* row of a worker that an earlier request added and left without a job
InitMig ==
    /\ migration_worker \in {{}, {"0"}}
    /\ db_mapping = StartupMapping
    /\ db_migration = {}
    /\ mWorkerChan = <<>>
    /\ call = [c \in Calls |-> IdleCall]
    /\ shadowWrites = {}
    /\ db_instance = <<"u1", "u2">>
    /\ mapCall = IdleMapCall
    /\ worker_metric = {}
    /\ migration_worker_hb =
          {[id |-> w, last_heartbeat |-> [valid |-> TRUE, time |-> 0]] :
              w \in migration_worker}
    /\ migration_worker_jobs = {}
    /\ sweep = [i \in Inst |-> IdleSweep]
    /\ subtasks = {}
    /\ rechecks = {}
    /\ reports = 0
    /\ db_conn_err = {}
    /\ failCheck = [i \in Inst |-> IdleFailCheck]
    /\ wrap = IdleWrap
    /\ httpCall = IdleHttpCall
    /\ createReq = [q \in ReqIds |-> IdleRequest]
    /\ run = IdleRun
    \* instance "A" leads and has registered, instance "B" is its shadow
    /\ isShadow = [i \in Inst |-> i = "B"]
    /\ pc = [i \in Inst |-> IF i = "B" THEN "checkControllerUp" ELSE "select"]
    /\ hb = [i \in Inst |-> IF i = "B" THEN "off" ELSE "loop"]
    /\ loops = [i \in Inst |-> IF i = "B" THEN {} ELSE LeaderLoops]
    /\ tx = [i \in Inst |-> NoTx]
    /\ tries = [i \in Inst |-> 1]
    /\ controller_status = {[id |-> 0, scaling |-> FALSE, last_heartbeat |-> 0]}
    /\ now = 0
    /\ storeFailures = 0
    /\ obsAge = [i \in Inst |-> NoAge]
    /\ promoted = {}
    /\ fatal = [i \in Inst |-> ""]

\* the steps of one request
StepMig(c) ==
    \/ MigrationHandler(c)
    \/ GetFreeMigrationWorker(c)
    \/ AddMigrationWorker(c)
    \/ AddMigrationJob(c)

NextMig == \E c \in Calls : StepMig(c)

SpecMig == InitMig /\ [][NextMig]_vars

\* the Go scheduler runs every request that can run
FairSpecMig == SpecMig /\ \A c \in Calls : WF_vars(StepMig(c))

\* ------------------------------------------------ the startup mapping
\* the url of the k-th registered database instance
Url(k) == "u" \o ToString(k)

alphabet == <<"a", "b", "c", "d", "e", "f", "g", "h", "i", "j", "k", "l", "m",
              "n", "o", "p", "q", "r", "s", "t", "u", "v", "w", "x", "y", "z">>

\* int(math.Ceil(float64(a) / float64(b))), exact for these small integers
Ceil(a, b) == (a + b - 1) \div b

NilMapping == [isNil |-> TRUE, panic |-> FALSE, dbRanges |-> {}]

CalculateStartupMappingNoUpper(dbInfos) ==
    IF Len(dbInfos) = 0 THEN NilMapping
    ELSE LET rangeCountPerDB == Ceil(Len(alphabet), Len(dbInfos)) IN
         IF \E count \in 0..(Len(dbInfos) - 1) :
                count * rangeCountPerDB >= Len(alphabet)
         THEN [isNil |-> FALSE, panic |-> TRUE, dbRanges |-> {}]
         ELSE [isNil |-> FALSE, panic |-> FALSE,
               dbRanges |-> {[url |-> dbInfos[count + 1],
                              from |-> alphabet[count * rangeCountPerDB + 1]] :
                                 count \in 0..(Len(dbInfos) - 1)}]

\* CalculateStartupMapping: nil for no instance and for more than 26;
\* else the k-th instance (from 0) gets alphabet[k * ceil(26 / n)], and
\* the index expression panics when it leaves the alphabet
CalculateStartupMapping(dbInfos) ==
    IF Len(dbInfos) = 0 THEN NilMapping
    ELSE IF Len(dbInfos) > 26 THEN NilMapping
    ELSE LET rangeCountPerDB == Ceil(Len(alphabet), Len(dbInfos)) IN
         IF \E count \in 0..(Len(dbInfos) - 1) :
                count * rangeCountPerDB >= Len(alphabet)
         THEN [isNil |-> FALSE, panic |-> TRUE, dbRanges |-> {}]
         ELSE [isNil |-> FALSE, panic |-> FALSE,
               dbRanges |-> {[url |-> dbInfos[count + 1],
                              from |-> alphabet[count * rangeCountPerDB + 1]] :
                                 count \in 0..(Len(dbInfos) - 1)}]

\* the error the handler tests: set exactly when no mapping was calculated
CalculateStartupMappingErr(res) == res.isNil

\* ReaderPerfectionist.GetAllDbInstanceInfo: the rows, or nil with a nil
\* error when every attempt failed
ReaderGetAllDbInstanceInfo == {[rows |-> db_instance, failed |-> FALSE],
                               [rows |-> <<>>, failed |-> TRUE]}

\* uuid.New() of Writer.AddDatabaseMapping: a fresh id for each row
MappingUuid(from, n) == "s" \o ToString(n) \o from

\* the handler of POST /mapping/startup up to the call of
\* ExecuteStartUpMapping; net/http recovers a panic and sends no answer
StartupMappingHandler(i) ==
    /\ mapCall.pc \in {"idle", "done", "panic"}
    /\ mapCall.calls < MaxMapCalls
    /\ \E read \in ReaderGetAllDbInstanceInfo :
          LET res  == CalculateStartupMapping(read.rows)
              base == [IdleMapCall EXCEPT !.inst = i,
                                          !.calls = mapCall.calls + 1,
                                          !.dbInfos = read.rows,
                                          !.readFailed = read.failed,
                                          !.emptyAtStart = (db_mapping = {})]
          IN  mapCall' =
                 IF res.panic THEN [base EXCEPT !.pc = "panic"]
                 ELSE IF CalculateStartupMappingErr(res)
                 THEN [base EXCEPT !.pc = "done",
                                   !.status = WriteHeader(0, 500)]
                 ELSE [base EXCEPT !.pc = "ExecuteStartUpMapping",
                                   !.rangeMap = res.dbRanges]
    /\ UNCHANGED extVars
    /\ UNCHANGED <<ctlVars, migVars, shadowWrites, db_instance, wrkVars,
                   failVars>>

\* the mappings whose INSERT the store accepts: "from" is UNIQUE
InsertDbMapping(rows, n) ==
    {[id |-> MappingUuid(m.from, n), url |-> m.url, from |-> m.from] :
        m \in {x \in rows : \A old \in db_mapping : old.from # x.from}}

\* the sets of at most k mappings whose wrapped write ends in an error
RECURSIVE FailedWrites(_, _)
FailedWrites(S, k) ==
    IF k = 0 THEN {{}}
    ELSE FailedWrites(S, k - 1) \cup
         {f \cup {m} : f \in FailedWrites(S, k - 1), m \in S}

\* ExecuteStartUpMapping: one wrapped write per mapping, a failed write is
\* logged and the loop goes on; the handler then returns, which sends 200
ExecuteStartUpMapping ==
    /\ mapCall.pc = "ExecuteStartUpMapping"
    /\ \E failed \in FailedWrites(mapCall.rangeMap, MaxMapFailures) :
          LET rows == InsertDbMapping(mapCall.rangeMap \ failed, mapCall.calls)
          IN  /\ db_mapping' = db_mapping \cup rows
              /\ mapCall' = [mapCall EXCEPT !.pc = "done",
                                            !.status = WriteHeader(0, 200),
                                            !.wrote = rows,
                                            !.failed = failed]
              /\ shadowWrites' = IF isShadow[mapCall.inst] /\ rows # {}
                                   THEN shadowWrites \cup {"db_mapping"}
                                   ELSE shadowWrites
    /\ UNCHANGED extVars
    /\ UNCHANGED <<ctlVars, migration_worker, db_migration, mWorkerChan, call,
                   db_instance, wrkVars, failVars>>

\* up to MaxInstances database instances are registered, db_mapping is
\* empty; instance "A" leads and has registered, instance "B" is its shadow
InitMap ==
    /\ db_instance \in {[k \in 1..n |-> Url(k)] : n \in 0..MaxInstances}
    /\ mapCall = IdleMapCall
    /\ worker_metric = {}
    /\ migration_worker_hb = {}
    /\ migration_worker_jobs = {}
    /\ sweep = [i \in Inst |-> IdleSweep]
    /\ subtasks = {}
    /\ rechecks = {}
    /\ reports = 0
    /\ db_conn_err = {}
    /\ failCheck = [i \in Inst |-> IdleFailCheck]
    /\ wrap = IdleWrap
    /\ httpCall = IdleHttpCall
    /\ createReq = [q \in ReqIds |-> IdleRequest]
    /\ run = IdleRun
    /\ migration_worker = {}
    /\ db_mapping = {}
    /\ db_migration = {}
    /\ mWorkerChan = <<>>
    /\ call = [c \in Calls |-> IdleCall]
    /\ shadowWrites = {}
    /\ isShadow = [i \in Inst |-> i = "B"]
    /\ pc = [i \in Inst |-> IF i = "B" THEN "checkControllerUp" ELSE "select"]
    /\ hb = [i \in Inst |-> IF i = "B" THEN "off" ELSE "loop"]
    /\ loops = [i \in Inst |-> IF i = "B" THEN {} ELSE LeaderLoops]
    /\ tx = [i \in Inst |-> NoTx]
    /\ tries = [i \in Inst |-> 1]
    /\ controller_status = {[id |-> 0, scaling |-> FALSE, last_heartbeat |-> 0]}
    /\ now = 0
    /\ storeFailures = 0
    /\ obsAge = [i \in Inst |-> NoAge]
    /\ promoted = {}
    /\ fatal = [i \in Inst |-> ""]

NextMap == (\E i \in Inst : StartupMappingHandler(i)) \/ ExecuteStartUpMapping

SpecMap == InitMap /\ [][NextMap]_vars

\* ------------------------------------------------ the liveness goroutine
WorkerIds == {"w1", "w2"}

\* uptimes a worker reports: below MINIMUM_WORKER_UPTIME, and at it
Uptimes == {0, MinimumWorkerUptime}

\* pgtype.UUID.String(): the text form of an id
UuidString(id) == "uuid:" \o id

\* guuid.Parse: the id a text form stands for, "" when it stands for none
GuuidParse(str) ==
    IF \E id \in WorkerIds : UuidString(id) = str
      THEN CHOOSE id \in WorkerIds : UuidString(id) = str
      ELSE ""

\* pgtype.Timestamptz
Timestamptz(valid, time) == [valid |-> valid, time |-> time]

\* sqlc.WorkerMetric{}: what the reader wrapper hands back when no attempt
\* returned a row
ZeroWorker == [id |-> "", last_heartbeat |-> Timestamptz(FALSE, ZeroTime),
               uptime |-> 0]

workerHeartbeatOKNoTimeout(heartbeat, timeout) == heartbeat.valid

\* workerHeartbeatOK returns nil: the heartbeat is valid and not older
\* than timeout
workerHeartbeatOK(heartbeat, timeout) ==
    /\ heartbeat.valid
    /\ ~(Sub(now, heartbeat.time) > timeout)

\* what n more engine failures leave of the failure budget
CanFail(n) == storeFailures + n <= MaxWrkFailures

\* ReaderPerfectionist.GetControllerState as EvaluateWorkerState sees it:
\* the row, or the zero row with a nil error
ReaderGetControllerState ==
    {[state |-> r, engine |-> 0] : r \in controller_status}
      \cup (IF controller_status = {}
              THEN {[state |-> ZeroRow, engine |-> 0]} ELSE {})
      \cup (IF CanFail(1) THEN {[state |-> ZeroRow, engine |-> 1]} ELSE {})

\* ReaderPerfectionist.GetAllWorkerState: the rows, or nil with a nil error
ReaderGetAllWorkerState ==
    {[rows |-> worker_metric, engine |-> 0]}
      \cup (IF CanFail(1) THEN {[rows |-> {}, engine |-> 1]} ELSE {})

\* ReaderPerfectionist.GetSingleWorkerState: String() of the id is parsed
\* back; the row with that id, or the zero row with a nil error
ReaderGetSingleWorkerState(workerID) ==
    {[state |-> r, engine |-> 0] :
        r \in {x \in worker_metric : x.id = GuuidParse(workerID)}}
      \cup (IF \A x \in worker_metric : x.id # GuuidParse(workerID)
              THEN {[state |-> ZeroWorker, engine |-> 0]} ELSE {})
      \cup (IF CanFail(1) THEN {[state |-> ZeroWorker, engine |-> 1]} ELSE {})

\* the instance runs the goroutines main() starts after checkControllerUp
RunsLoops(i) == "EvaluateWorkerState" \in loops[i] /\ fatal[i] = ""

\* a re-check goroutine, about to re-read its worker
Recheck(kind, w) == [kind |-> kind, worker |-> w.id, pc |-> "reread",
                     recovered |-> FALSE]

\* EvaluateWorkerState: one sweep over worker_metric.  A worker whose
\* heartbeat is not ok gets a heartbeat re-check, a worker below the
\* minimum uptime (while not scaling) an uptime re-check.
EvaluateWorkerState(i) ==
    /\ RunsLoops(i)
    /\ sweep[i].pc = "sleep"
    /\ now >= sweep[i].next
    /\ \E st \in ReaderGetControllerState :
       \E ws \in {x \in ReaderGetAllWorkerState : CanFail(st.engine + x.engine)} :
          LET isScaling     == st.state.scaling
              minimumUptime == IF ~isScaling THEN MinimumWorkerUptime ELSE 0
              delayed == {w \in ws.rows :
                            ~workerHeartbeatOK(w.last_heartbeat,
                                               WorkerHeartbeatTimeout)}
              low     == {w \in ws.rows :
                            ~isScaling /\ w.uptime < minimumUptime}
          IN  /\ subtasks' = subtasks
                               \cup {Recheck("heartbeat", w) : w \in delayed}
                               \cup {Recheck("uptime", w) : w \in low}
              /\ storeFailures' = storeFailures + st.engine + ws.engine
    /\ sweep' = [sweep EXCEPT ![i] = [pc |-> "EvaluateMigrationWorkerState",
                                      next |-> sweep[i].next, start |-> now]]
    /\ UNCHANGED extVars
    /\ UNCHANGED <<isShadow, pc, hb, loops, tx, tries, controller_status, now,
                   obsAge, promoted, fatal, migVars, shadowWrites, mapVars, failVars,
                   worker_metric, migration_worker_hb, migration_worker_jobs,
                   rechecks, reports>>

\* Writer.RemoveWorker through its wrapper: DELETE FROM worker_metric
\* WHERE id = $1; no row affected is a terminal error
RemoveWorker(id) == {w \in worker_metric : w.id # id}

StillDelinquentAlways(kind, workerState) == TRUE

\* the test of a re-check after its re-read (dbErr is always nil): the
\* heartbeat is still not ok, or the uptime still below the minimum
StillDelinquent(kind, workerState) ==
    IF kind = "heartbeat"
      THEN ~workerHeartbeatOK(workerState.last_heartbeat, WorkerHeartbeatTimeout)
      ELSE workerState.uptime < MinimumWorkerUptime

\* the row a re-check re-read shows a worker that recovered: a valid
\* heartbeat within the timeout, or an uptime of the minimum or more
Recovered(kind, workerState) ==
    IF kind = "heartbeat"
      THEN /\ workerState.last_heartbeat.valid
           /\ now - workerState.last_heartbeat.time <= WorkerHeartbeatTimeout
      ELSE workerState.id # "" /\ workerState.uptime >= MinimumWorkerUptime

\* the re-read of a re-check goroutine, and what it decides
SubtaskReread(t) ==
    /\ t \in subtasks
    /\ t.pc = "reread"
    /\ \E rd \in ReaderGetSingleWorkerState(UuidString(t.worker)) :
          LET workerState == rd.state
              bad  == StillDelinquent(t.kind, workerState)
              seen == [t EXCEPT !.recovered = Recovered(t.kind, workerState)]
          IN  /\ subtasks' = (subtasks \ {t}) \cup
                    (IF bad THEN {[seen EXCEPT !.pc = "RemoveWorker"]}
                     ELSE IF t.kind = "uptime"
                            THEN {[seen EXCEPT !.pc = "RemoveWorker160"]}
                            ELSE {})
              /\ rechecks' = IF ~bad /\ t.kind = "heartbeat"
                               THEN rechecks \cup {[worker |-> t.worker,
                                                    kind |-> t.kind,
                                                    recovered |-> seen.recovered,
                                                    deleted |-> FALSE]}
                               ELSE rechecks
              /\ storeFailures' = storeFailures + rd.engine
    /\ UNCHANGED extVars
    /\ UNCHANGED <<isShadow, pc, hb, loops, tx, tries, controller_status, now,
                   obsAge, promoted, fatal, migVars, shadowWrites, mapVars, failVars,
                   worker_metric, migration_worker_hb, migration_worker_jobs,
                   sweep, reports>>

\* the RemoveWorker calls of a re-check goroutine.  The uptime re-check
\* tests the sweep's err after its first call, a variable the sweep writes
\* without synchronisation, and unless it returns there it calls
\* RemoveWorker once more
SubtaskRemove(t) ==
    /\ t \in subtasks
    /\ t.pc \in {"RemoveWorker", "RemoveWorker160"}
    /\ \E engine \in IF CanFail(1) THEN {FALSE, TRUE} ELSE {FALSE} :
       \E errNotNil \in BOOLEAN :
          LET deleted == ~engine /\ \E w \in worker_metric : w.id = t.worker
          IN  /\ worker_metric' = IF engine THEN worker_metric
                                            ELSE RemoveWorker(t.worker)
              /\ rechecks' = rechecks \cup {[worker |-> t.worker,
                                             kind |-> t.kind,
                                             recovered |-> t.recovered,
                                             deleted |-> deleted]}
              /\ storeFailures' = storeFailures + (IF engine THEN 1 ELSE 0)
              /\ subtasks' =
                    IF t.kind = "uptime" /\ t.pc = "RemoveWorker" /\ ~errNotNil
                      THEN (subtasks \ {t})
                             \cup {[t EXCEPT !.pc = "RemoveWorker160"]}
                      ELSE subtasks \ {t}
    /\ UNCHANGED extVars
    /\ UNCHANGED <<isShadow, pc, hb, loops, tx, tries, controller_status, now,
                   obsAge, promoted, fatal, migVars, shadowWrites, mapVars, failVars,
                   migration_worker_hb, migration_worker_jobs, sweep, reports>>

\* ReaderPerfectionist.GetAllMWorkerState: the rows, or nil with a nil error
ReaderGetAllMWorkerState ==
    {[rows |-> migration_worker_hb, engine |-> 0]}
      \cup (IF CanFail(1) THEN {[rows |-> {}, engine |-> 1]} ELSE {})

RemoveMWorkerOnly(ids) ==
    [migration_worker |-> migration_worker \ ids,
     migration_worker_hb |-> {w \in migration_worker_hb : w.id \notin ids},
     db_migration |-> db_migration,
     migration_worker_jobs |->
        {j \in migration_worker_jobs : j.worker_id \notin ids}]

\* Writer.RemoveMWorkerAndJobs for every id of ids: in one transaction the
\* worker-job joins, the jobs and the worker row of a migration worker go
RemoveMWorkerAndJobs(ids) ==
    LET jobs == {m \in db_migration : m.m_worker_id \in ids}
    IN  [migration_worker |-> migration_worker \ ids,
         migration_worker_hb |-> {w \in migration_worker_hb : w.id \notin ids},
         db_migration |-> db_migration \ jobs,
         migration_worker_jobs |->
            {j \in migration_worker_jobs :
                j.worker_id \notin ids /\ j.migration_id \notin Ids(jobs)}]

\* EvaluateMigrationWorkerState, and the sleep that ends the sweep: every
\* migration worker whose heartbeat is not ok is removed with its jobs,
\* unless the wrapper gives up on it
EvaluateMigrationWorkerState(i) ==
    /\ RunsLoops(i)
    /\ sweep[i].pc = "EvaluateMigrationWorkerState"
    /\ \E rd \in ReaderGetAllMWorkerState :
          LET maxAgeHeartbeat == MWorkerHeartbeatTimeout
              stale == {w.id : w \in {x \in rd.rows :
                          ~workerHeartbeatOK(x.last_heartbeat, maxAgeHeartbeat)}}
          IN  \E failed \in {f \in SUBSET stale :
                                CanFail(rd.engine + Cardinality(f))} :
                 LET res == RemoveMWorkerAndJobs(stale \ failed)
                 IN  /\ migration_worker' = res.migration_worker
                     /\ migration_worker_hb' = res.migration_worker_hb
                     /\ db_migration' = res.db_migration
                     /\ migration_worker_jobs' = res.migration_worker_jobs
                     /\ storeFailures' = storeFailures + rd.engine
                                           + Cardinality(failed)
    /\ sweep' = [sweep EXCEPT ![i] = [pc |-> "sleep",
                                      next |-> sweep[i].start + CheckWorkerBackoff,
                                      start |-> sweep[i].start]]
    /\ UNCHANGED extVars
    /\ UNCHANGED <<isShadow, pc, hb, loops, tx, tries, controller_status, now,
                   obsAge, promoted, fatal, db_mapping, mWorkerChan, call,
                   shadowWrites, mapVars, failVars, worker_metric, subtasks, rechecks,
                   reports>>

\* a serving worker writes its heartbeat and its uptime
WorkerReport(w) ==
    /\ reports < MaxReports
    /\ reports' = reports + 1
    /\ \E up \in Uptimes :
          worker_metric' = RemoveWorker(w)
             \cup {[id |-> w, last_heartbeat |-> Timestamptz(TRUE, now),
                    uptime |-> up]}
    /\ UNCHANGED extVars
    /\ UNCHANGED <<ctlVars, migVars, shadowWrites, mapVars, failVars,
                   migration_worker_hb, migration_worker_jobs, sweep,
                   subtasks, rechecks>>

\* a migration worker writes its heartbeat
MWorkerReport(id) ==
    /\ reports < MaxReports
    /\ id \in migration_worker
    /\ reports' = reports + 1
    /\ migration_worker_hb' = {w \in migration_worker_hb : w.id # id}
          \cup {[id |-> id, last_heartbeat |-> Timestamptz(TRUE, now)]}
    /\ UNCHANGED extVars
    /\ UNCHANGED <<ctlVars, migVars, shadowWrites, mapVars, failVars, worker_metric,
                   migration_worker_jobs, sweep, subtasks, rechecks>>

\* time passes while the liveness goroutine sleeps: a sweep that is due
\* and the re-checks it started run before the clock moves on
TickWrk ==
    /\ now + TickStep <= MaxTime
    /\ subtasks = {}
    /\ \A i \in Inst : sweep[i].pc = "sleep"
    /\ \A i \in Inst : RunsLoops(i) => now < sweep[i].next
    /\ now' = now + TickStep
    /\ UNCHANGED <<isShadow, pc, hb, loops, tx, tries, controller_status,
                   storeFailures, obsAge, promoted, fatal, migVars,
                   shadowWrites, auxVars>>

\* the rows a worker_metric table may hold when the leader starts its loops
StartRows(w) == {[id |-> w, last_heartbeat |-> Timestamptz(TRUE, 0), uptime |-> up] :
                    up \in Uptimes}
                \cup {[id |-> w, last_heartbeat |-> Timestamptz(FALSE, ZeroTime),
                       uptime |-> MinimumWorkerUptime]}

\* instance "A" leads and starts its loops, instance "B" is its shadow;
\* migration worker "0" has the job of mapping m1, migration worker "1" is
\* free
InitWrk ==
    /\ worker_metric \in {rows \in SUBSET (UNION {StartRows(w) : w \in WorkerIds}) :
                            \A r1, r2 \in rows : r1.id = r2.id => r1 = r2}
    /\ db_mapping = StartupMapping
    /\ migration_worker = {"0", "1"}
    /\ migration_worker_hb \in
          {{[id |-> "0", last_heartbeat |-> h0], [id |-> "1", last_heartbeat |-> h1]} :
              h0, h1 \in {Timestamptz(TRUE, 0), Timestamptz(FALSE, ZeroTime)}}
    /\ db_migration = CreateMigrationJob("u1", "a", "m", "0")
    /\ migration_worker_jobs = {[worker_id |-> "0", migration_id |-> "m1"]}
    /\ sweep = [i \in Inst |-> IdleSweep]
    /\ subtasks = {}
    /\ rechecks = {}
    /\ reports = 0
    /\ db_conn_err = {}
    /\ failCheck = [i \in Inst |-> IdleFailCheck]
    /\ wrap = IdleWrap
    /\ httpCall = IdleHttpCall
    /\ createReq = [q \in ReqIds |-> IdleRequest]
    /\ run = IdleRun
    /\ db_instance = <<"u1", "u2">>
    /\ mapCall = IdleMapCall
    /\ mWorkerChan = <<>>
    /\ call = [c \in Calls |-> IdleCall]
    /\ shadowWrites = {}
    /\ isShadow = [i \in Inst |-> i = "B"]
    /\ pc = [i \in Inst |-> IF i = "B" THEN "checkControllerUp" ELSE "select"]
    /\ hb = [i \in Inst |-> IF i = "B" THEN "off" ELSE "loop"]
    /\ loops = [i \in Inst |-> IF i = "B" THEN {} ELSE LeaderLoops]
    /\ tx = [i \in Inst |-> NoTx]
    /\ tries = [i \in Inst |-> 1]
    /\ controller_status \in {{[id |-> 0, scaling |-> sc, last_heartbeat |-> 0]} :
                                 sc \in BOOLEAN}
    /\ now = 0
    /\ storeFailures = 0
    /\ obsAge = [i \in Inst |-> NoAge]
    /\ promoted = {}
    /\ fatal = [i \in Inst |-> ""]

\* the steps of the liveness goroutine and of its re-checks
StepWrk ==
    \/ \E i \in Inst : EvaluateWorkerState(i)
    \/ \E i \in Inst : EvaluateMigrationWorkerState(i)
    \/ \E t \in subtasks : SubtaskReread(t)
    \/ \E t \in subtasks : SubtaskRemove(t)

NextWrk ==
    \/ StepWrk
    \/ \E w \in WorkerIds : WorkerReport(w)
    \/ \E id \in migration_worker : MWorkerReport(id)
    \/ TickWrk

SpecWrk == InitWrk /\ [][NextWrk]_vars

\* the Go scheduler runs every goroutine that can run, and time passes
FairSpecWrk == SpecWrk /\ WF_vars(StepWrk) /\ WF_vars(TickWrk)

\* ------------------------------------------------ the failure-rate check
DbUrls == {"u1", "u2"}

\* failureTime.After(now.Add(-30 * time.Minute))
Recent(r, t) == r.fail_time > t - FailureWindow

\* errorToFrequency[workerIdx][dbIdx] after the second pass
ErrorToFrequency(rows, t, w, d) ==
    Cardinality({r \in rows : Recent(r, t) /\ r.worker_id = w /\ r.db_url = d})

RECURSIVE SumOver(_, _, _, _, _)
\* the loops that add up a row (byWorker) or a column of the matrix
SumOver(rows, t, keys, fixed, byWorker) ==
    IF keys = {} THEN 0
    ELSE LET k == CHOOSE x \in keys : TRUE
         IN  (IF byWorker THEN ErrorToFrequency(rows, t, fixed, k)
                          ELSE ErrorToFrequency(rows, t, k, fixed))
               + SumOver(rows, t, keys \ {k}, fixed, byWorker)

\* the warnings CheckFailureRate collects: every cell, every worker's row
\* sum and every database's column sum that is greater than the threshold
Warnings(rows, t) ==
    LET workerList == {r.worker_id : r \in {x \in rows : Recent(x, t)}}
        dbList     == {r.db_url : r \in {x \in rows : Recent(x, t)}}
    IN  {[kind |-> "cell", worker |-> c[1], db |-> c[2],
          count |-> ErrorToFrequency(rows, t, c[1], c[2])] :
             c \in {x \in workerList \X dbList :
                ErrorToFrequency(rows, t, x[1], x[2]) > FailureThreshold}}
        \cup
        {[kind |-> "worker", worker |-> w, db |-> "",
          count |-> SumOver(rows, t, dbList, w, TRUE)] :
             w \in {x \in workerList :
                SumOver(rows, t, dbList, x, TRUE) > FailureThreshold}}
        \cup
        {[kind |-> "db", worker |-> "", db |-> d,
          count |-> SumOver(rows, t, workerList, d, FALSE)] :
             d \in {x \in dbList :
                SumOver(rows, t, workerList, x, FALSE) > FailureThreshold}}

\* ReaderPerfectionist.GetDBConnErrors: the rows, or nil with a nil error
ReaderGetDBConnErrors == {[rows |-> db_conn_err, failed |-> FALSE],
                          [rows |-> {}, failed |-> TRUE]}

\* the goroutine main() starts for the failure rate: CheckFailureRate.  The
\* first pass deletes the rows older than the window, one transaction each,
\* and returns the first error, on which the goroutine ends the process
CheckFailureRate(i) ==
    /\ "CheckFailureRate" \in loops[i]
    /\ fatal[i] = ""
    /\ failCheck[i].pc = "CheckFailureRate"
    /\ \E rd \in ReaderGetDBConnErrors :
          LET connErrorStructList == rd.rows
              old == {r \in connErrorStructList : ~Recent(r, now)}
          IN  \E deleted \in SUBSET old :
                 /\ db_conn_err' = db_conn_err \ deleted
                 /\ IF deleted # old
                      THEN /\ Fatal(i, "fatal error checking failure rates")
                           /\ failCheck' = [failCheck EXCEPT ![i].pc = "ended"]
                      ELSE /\ failCheck' = [failCheck EXCEPT ![i] =
                                 [pc |-> "sleep",
                                  invoked |-> failCheck[i].invoked + 1,
                                  at |-> now,
                                  warnings |-> Warnings(connErrorStructList, now),
                                  read |-> connErrorStructList]]
                           /\ UNCHANGED <<pc, hb, loops, fatal>>
    /\ UNCHANGED extVars
    /\ UNCHANGED <<isShadow, tx, tries, controller_status, now, storeFailures,
                   obsAge, promoted, migVars, shadowWrites, mapVars, wrkVars>>

\* time.Sleep(5 * time.Minute) is over: the goroutine's function returns
FailureRateReturns(i) ==
    /\ "CheckFailureRate" \in loops[i]
    /\ fatal[i] = ""
    /\ failCheck[i].pc = "sleep"
    /\ now >= failCheck[i].at + FailureRateSleep
    /\ failCheck' = [failCheck EXCEPT ![i].pc = "ended"]
    /\ UNCHANGED extVars
    /\ UNCHANGED <<ctlVars, migVars, shadowWrites, mapVars, wrkVars,
                   db_conn_err>>

\* five minutes pass; a call that is due runs before the clock moves on
TickFail ==
    /\ now + FailureRateSleep <= FailureWindow + MaxFailTicks * FailureRateSleep
    /\ \A i \in Inst : ("CheckFailureRate" \in loops[i] /\ fatal[i] = "") =>
          /\ failCheck[i].pc # "CheckFailureRate"
          /\ ~(failCheck[i].pc = "sleep"
                 /\ now >= failCheck[i].at + FailureRateSleep)
    /\ now' = now + FailureRateSleep
    /\ UNCHANGED <<isShadow, pc, hb, loops, tx, tries, controller_status,
                   storeFailures, obsAge, promoted, fatal, migVars,
                   shadowWrites, auxVars>>

\* the rows of the last half hour that give cell (w, d) the count n[w, d],
\* and with them, when stale is true, two rows older than the window
ConnErrors(n, stale, t) ==
    UNION {{[worker_id |-> c[1], db_url |-> c[2], fail_time |-> t - k] :
               k \in 1..n[c]} : c \in WorkerIds \X DbUrls}
      \cup (IF stale
              THEN {[worker_id |-> "w1", db_url |-> "u1",
                     fail_time |-> t - FailureWindow],
                    [worker_id |-> "w2", db_url |-> "u2", fail_time |-> 0]}
              ELSE {})

\* instance "A" leads and starts its loops half an hour after the first
\* connection error was recorded, instance "B" is its shadow
InitFail ==
    /\ now = FailureWindow
    /\ db_conn_err \in {ConnErrors(n, stale, FailureWindow) :
                           n \in [WorkerIds \X DbUrls -> 0..MaxErrors],
                           stale \in BOOLEAN}
    /\ failCheck = [i \in Inst |-> IdleFailCheck]
    /\ wrap = IdleWrap
    /\ httpCall = IdleHttpCall
    /\ createReq = [q \in ReqIds |-> IdleRequest]
    /\ run = IdleRun
    /\ worker_metric = {}
    /\ migration_worker_hb = {}
    /\ migration_worker_jobs = {}
    /\ sweep = [i \in Inst |-> IdleSweep]
    /\ subtasks = {}
    /\ rechecks = {}
    /\ reports = 0
    /\ db_instance = <<"u1", "u2">>
    /\ mapCall = IdleMapCall
    /\ migration_worker = {}
    /\ db_mapping = StartupMapping
    /\ db_migration = {}
    /\ mWorkerChan = <<>>
    /\ call = [c \in Calls |-> IdleCall]
    /\ shadowWrites = {}
    /\ isShadow = [i \in Inst |-> i = "B"]
    /\ pc = [i \in Inst |-> IF i = "B" THEN "checkControllerUp" ELSE "select"]
    /\ hb = [i \in Inst |-> IF i = "B" THEN "off" ELSE "loop"]
    /\ loops = [i \in Inst |-> IF i = "B" THEN {} ELSE LeaderLoops]
    /\ tx = [i \in Inst |-> NoTx]
    /\ tries = [i \in Inst |-> 1]
    /\ controller_status = {[id |-> 0, scaling |-> FALSE, last_heartbeat |-> 0]}
    /\ storeFailures = 0
    /\ obsAge = [i \in Inst |-> NoAge]
    /\ promoted = {}
    /\ fatal = [i \in Inst |-> ""]

StepFail(i) == CheckFailureRate(i) \/ FailureRateReturns(i)

NextFail == (\E i \in Inst : StepFail(i)) \/ TickFail

SpecFail == InitFail /\ [][NextFail]_vars

\* ================================================ the retrying wrappers
\* what BACKOFF_TYPE may hold: the two documented values and another one
BackoffTypeInputs == {"exp", "lin", "quad"}

\* what INIT_RETRY_BACKOFF may hold, a time.Duration in microseconds
InitBackoffs == {2000, 3000, 15000}

\* the wrapped operations whose loop is followed, by wrapper
ReaderOps == {"Ping", "GetControllerState", "GetSingleWorkerState"}

WriterOps == {"Heartbeat", "AddMigrationJob", "RemoveWorker"}

\* the workerID a caller of GetSingleWorkerState may pass
WorkerIdStrings == {UuidString("w1"), "not-a-uuid"}

\* the switch of NewReaderPerfectionist and NewWriterPerfectionist
NewPerfectionist(backoffTypeInput) ==
    IF backoffTypeInput = "exp" THEN "exponential"
    ELSE IF backoffTypeInput = "lin" THEN "linear"
    ELSE "exp"

\* time.Duration.Milliseconds
Milliseconds(d) == d \div 1000

\* math.Pow, exact for these small integers
RECURSIVE Pow(_, _)
Pow(x, n) == IF n = 0 THEN 1 ELSE x * Pow(x, n - 1)

\* utils.CalculateAndExecuteBackoff: the time it sleeps, in milliseconds.
\* The backoffType of the wrapper is not among its parameters.
CalculateAndExecuteBackoff(iteration, initBackoff) ==
    Pow(Milliseconds(initBackoff), iteration)

\* what one call of a Reader method returns: an error value (a plain
\* error, "" for nil) and the class the store adapter gives it.  BeginTx,
\* the query or Commit fail in the engine; GetSingleWorkerState parses
\* its workerID after BeginTx and before the query.
ReaderReturns(op, workerID) ==
    {[err |-> "engine", class |-> "reconcilable"]}
      \cup (IF op = "GetSingleWorkerState" /\ GuuidParse(workerID) = ""
              THEN {[err |-> "could not parse uuid", class |-> "terminal"]}
              ELSE {[err |-> "", class |-> "ok"]})

\* what one call of a Writer method returns: the DbError of utils.Must
WriterReturns(op) ==
    {Must("other", 0), Must("", 1), Must("", 0)}
      \cup (IF op = "AddMigrationJob"
              THEN {Must("23505", 0), Must("23503", 0)} ELSE {})

\* a Reader method called with a cancelled context: BeginTx (the ping for
\* Ping) returns the error of the context
ReaderReturnsCtx(ctx, op, workerID) ==
    IF ctx = "cancelled"
      THEN {[err |-> "context canceled", class |-> "reconcilable"]}
      ELSE ReaderReturns(op, workerID)

\* a Writer method called with a cancelled context: BeginTx fails, which
\* the method returns as a reconcilable DbError
WriterReturnsCtx(ctx, op) ==
    IF ctx = "cancelled"
      THEN {[err |-> "beginning transaction: context canceled",
             reconcilable |-> TRUE]}
      ELSE WriterReturns(op)

\* what the loop does after a failed attempt that does not end the call
Retry(w, class) ==
    [w EXCEPT !.i = w.i + 1,
              !.calls = w.calls + 1,
              !.errs = Append(w.errs, class),
              !.slept = Append(w.slept,
                               CalculateAndExecuteBackoff(w.i, w.initialBackoff))]

\* the wrapper returns
WrapReturns(w, class, ret, zero) ==
    [w EXCEPT !.pc = "returned",
              !.calls = w.calls + 1,
              !.errs = Append(w.errs, class),
              !.ret = ret,
              !.zero = zero]

\* One iteration of the loop of a ReaderPerfectionist method.  The loop
\* declares err again (state, err := ...), so the err that the function
\* returns after the loop is the outer one, which nothing ever assigned:
\* after the last failed attempt it returns the zero value and nil.
ReaderAttempt ==
    /\ wrap.pc = "loop"
    /\ wrap.kind = "ReaderPerfectionist"
    /\ \E o \in ReaderReturnsCtx(wrap.ctx, wrap.op, wrap.workerID) :
         wrap' = IF o.err = ""
                   THEN WrapReturns(wrap, o.class, "nil", FALSE)
                 ELSE IF wrap.i < MaxRetries
                   THEN Retry(wrap, o.class)
                 ELSE WrapReturns(wrap, o.class, "nil", TRUE)
    /\ UNCHANGED <<ctlVars, migVars, shadowWrites, mapVars, wrkVars, failVars,
                   httpCall, createReq, run>>

\* One iteration of the loop of a WriterPerfectionist method: nil returns
\* nil, an error that is not reconcilable returns at once, the last
\* reconcilable one is returned after the loop.
WriterAttempt ==
    /\ wrap.pc = "loop"
    /\ wrap.kind = "WriterPerfectionist"
    /\ \E err \in WriterReturnsCtx(wrap.ctx, wrap.op) :
         wrap' = IF err.err = ""
                   THEN WrapReturns(wrap, Outcome(err), "nil", FALSE)
                 ELSE IF ~err.reconcilable
                   THEN WrapReturns(wrap, Outcome(err), err.err, FALSE)
                 ELSE IF wrap.i < MaxRetries
                   THEN Retry(wrap, Outcome(err))
                 ELSE WrapReturns(wrap, Outcome(err), err.err, FALSE)
    /\ UNCHANGED <<ctlVars, migVars, shadowWrites, mapVars, wrkVars, failVars,
                   httpCall, createReq, run>>

\* the caller's context is cancelled while the wrapper runs (the client of
\* the HTTP request went away); no wrapper reads ctx.Done() or ctx.Err()
CancelCtx ==
    /\ wrap.pc = "loop"
    /\ wrap.ctx = "active"
    /\ wrap' = [wrap EXCEPT !.ctx = "cancelled"]
    /\ UNCHANGED <<ctlVars, migVars, shadowWrites, mapVars, wrkVars, failVars,
                   httpCall, createReq, run>>

\* a wrapper made by NewReaderPerfectionist or NewWriterPerfectionist from
\* the environment, at the start of one call of one of its methods
InitRetry ==
    /\ wrap \in {[IdleWrap EXCEPT !.pc = "loop", !.kind = k.kind, !.op = k.op,
                                 !.backoffTypeInput = b,
                                 !.backoffType = NewPerfectionist(b),
                                 !.initialBackoff = d,
                                 !.workerID = IF k.op = "GetSingleWorkerState"
                                                THEN id ELSE ""] :
                  k \in {[kind |-> "ReaderPerfectionist", op |-> o] : o \in ReaderOps}
                         \cup {[kind |-> "WriterPerfectionist", op |-> o] :
                                   o \in WriterOps},
                  b \in BackoffTypeInputs, d \in InitBackoffs,
                  id \in WorkerIdStrings}
    \* the rest of the program: a leader, its shadow, empty tables
    /\ isShadow = [i \in Inst |-> i = "B"]
    /\ pc = [i \in Inst |-> IF i = "B" THEN "checkControllerUp" ELSE "select"]
    /\ hb = [i \in Inst |-> IF i = "B" THEN "off" ELSE "loop"]
    /\ loops = [i \in Inst |-> IF i = "B" THEN {} ELSE LeaderLoops]
    /\ tx = [i \in Inst |-> NoTx]
    /\ tries = [i \in Inst |-> 1]
    /\ controller_status = {[id |-> 0, scaling |-> FALSE, last_heartbeat |-> 0]}
    /\ now = 0
    /\ storeFailures = 0
    /\ obsAge = [i \in Inst |-> NoAge]
    /\ promoted = {}
    /\ fatal = [i \in Inst |-> ""]
    /\ migration_worker = {}
    /\ db_mapping = {}
    /\ db_migration = {}
    /\ mWorkerChan = <<>>
    /\ call = [c \in Calls |-> IdleCall]
    /\ shadowWrites = {}
    /\ db_instance = <<>>
    /\ mapCall = IdleMapCall
    /\ worker_metric = {}
    /\ migration_worker_hb = {}
    /\ migration_worker_jobs = {}
    /\ sweep = [i \in Inst |-> IdleSweep]
    /\ subtasks = {}
    /\ rechecks = {}
    /\ reports = 0
    /\ db_conn_err = {}
    /\ failCheck = [i \in Inst |-> IdleFailCheck]
    /\ httpCall = IdleHttpCall
    /\ createReq = [q \in ReqIds |-> IdleRequest]
    /\ run = IdleRun

NextRetry == ReaderAttempt \/ WriterAttempt \/ CancelCtx

SpecRetry == InitRetry /\ [][NextRetry]_vars

\* ========================================================== the launcher
\* what startMigrationWorker returns ("nil" for none)
RuntimeOutcomes == {"nil", "could not create container",
                    "could not start container"}

\* DInterface.SendMWorkerRequest and the statement that follows it in
\* RunMigration: the request goes into mWorkerChan with a fresh
\* ResponseChan, and the caller waits in ChanWihTimeout
SendMWorkerRequest(q) ==
    /\ createReq[q].pc = "unsent"
    /\ Len(mWorkerChan) < MWorkerChanCap
    /\ mWorkerChan' = Append(mWorkerChan, q)
    /\ createReq' = [createReq EXCEPT ![q].pc = "queued",
                                      ![q].ResponseChan = respChannel,
                                      ![q].caller = "ChanWihTimeout"]
    /\ UNCHANGED <<ctlVars, migration_worker, db_mapping, db_migration, call,
                   shadowWrites, mapVars, wrkVars, failVars, wrap, httpCall, run>>

\* DInterface.Run, case req := <-d.mWorkerChan: the dispatcher takes the
\* oldest request, starts the goroutine that calls startMigrationWorker
\* and waits in its inner select
RunReceive ==
    /\ run.pc = "select"
    /\ mWorkerChan # <<>>
    /\ LET q == Head(mWorkerChan)
       IN  /\ run' = [pc |-> "inner select", req |-> q]
           /\ createReq' = [createReq EXCEPT
                               ![q].pc = "taken",
                               ![q].worker = "startMigrationWorker"]
    /\ mWorkerChan' = Tail(mWorkerChan)
    /\ UNCHANGED <<ctlVars, migration_worker, db_mapping, db_migration, call,
                   shadowWrites, mapVars, wrkVars, failVars, wrap, httpCall>>

\* the goroutine of the request: startMigrationWorker calls the container
\* runtime with the context of the request and its result goes into
\* funcRes, which has room for it
StartMigrationWorker(q) ==
    /\ createReq[q].worker = "startMigrationWorker"
    /\ \E e \in RuntimeOutcomes \cup
                 (IF createReq[q].ctx = "active" THEN {}
                  ELSE {"could not create container: context canceled"}) :
          createReq' = [createReq EXCEPT ![q].worker = "done",
                                         ![q].funcRes = <<e>>]
    /\ UNCHANGED <<ctlVars, migVars, shadowWrites, mapVars, wrkVars, failVars,
                   wrap, httpCall, run>>

\* the cases of the inner select that can proceed, with the value each
\* one sends on ResponseChan
InnerSelect(r) ==
    (IF r.ctx = "active" THEN {}
     ELSE {[case |-> "ctx.Done", reply |-> "context canceled"]})
      \cup
    (IF r.funcRes = <<>> THEN {}
     ELSE {[case |-> "funcRes",
            reply |-> IF Head(r.funcRes) # "nil"
                        THEN "there was an error creating the migration worker"
                        ELSE "nil"]})

\* DInterface.Run, the inner select and the send on ResponseChan of the
\* case it takes.  The send goes into the buffer when there is room, to a
\* caller that is receiving when there is none, and blocks the dispatcher
\* otherwise.
RunReply ==
    /\ run.pc = "inner select"
    /\ LET q == run.req
           r == createReq[q]
       IN  \E c \in InnerSelect(r) :
             LET taken == [r EXCEPT !.funcRes = IF c.case = "funcRes"
                                                  THEN <<>> ELSE r.funcRes]
             IN  IF Len(r.ResponseChan.buf) < r.ResponseChan.cap
                   THEN /\ createReq' = [createReq EXCEPT ![q] =
                              [taken EXCEPT
                                 !.pc = "replied",
                                 !.replies = Append(r.replies, c.reply),
                                 !.ResponseChan.buf =
                                     Append(r.ResponseChan.buf, c.reply)]]
                        /\ run' = IdleRun
                 ELSE IF r.caller = "ChanWihTimeout"
                   THEN /\ createReq' = [createReq EXCEPT ![q] =
                              [taken EXCEPT
                                 !.pc = "replied",
                                 !.replies = Append(r.replies, c.reply),
                                 !.caller = "returned",
                                 !.got = c.reply]]
                        /\ run' = IdleRun
                 ELSE /\ createReq' = [createReq EXCEPT ![q] = taken]
                      /\ run' = [pc |-> "blocked", req |-> q]
    /\ UNCHANGED <<ctlVars, migVars, shadowWrites, mapVars, wrkVars, failVars,
                   wrap, httpCall>>

\* the context of the request is cancelled: the client went away, or the
\* handler of the request returned
CtxDone(q) ==
    /\ createReq[q].pc # "unsent"
    /\ createReq[q].ctx = "active"
    /\ createReq' = [createReq EXCEPT ![q].ctx = "canceled"]
    /\ UNCHANGED <<ctlVars, migVars, shadowWrites, mapVars, wrkVars, failVars,
                   wrap, httpCall, run>>

\* utils.ChanWihTimeout: the caller receives the reply, or five seconds
\* have passed and it returns ErrCreateTimeout
ChanWihTimeout(q) ==
    /\ createReq[q].caller = "ChanWihTimeout"
    /\ \/ /\ createReq[q].ResponseChan.buf # <<>>
          /\ createReq' = [createReq EXCEPT
                ![q].caller = "returned",
                ![q].got = Head(createReq[q].ResponseChan.buf),
                ![q].ResponseChan.buf = Tail(createReq[q].ResponseChan.buf)]
       \/ createReq' = [createReq EXCEPT ![q].caller = "returned",
                                         ![q].got = "ErrCreateTimeout"]
    /\ UNCHANGED <<ctlVars, migVars, shadowWrites, mapVars, wrkVars, failVars,
                   wrap, httpCall, run>>

\* main() has started DInterface.Run and the HTTP server; no request was
\* sent yet
InitRun ==
    /\ isShadow = [i \in Inst |-> i = "B"]
    /\ pc = [i \in Inst |-> IF i = "B" THEN "checkControllerUp" ELSE "select"]
    /\ hb = [i \in Inst |-> IF i = "B" THEN "off" ELSE "loop"]
    /\ loops = [i \in Inst |-> IF i = "B" THEN {} ELSE LeaderLoops]
    /\ tx = [i \in Inst |-> NoTx]
    /\ tries = [i \in Inst |-> 1]
    /\ controller_status = {[id |-> 0, scaling |-> FALSE, last_heartbeat |-> 0]}
    /\ now = 0
    /\ storeFailures = 0
    /\ obsAge = [i \in Inst |-> NoAge]
    /\ promoted = {}
    /\ fatal = [i \in Inst |-> ""]
    /\ migration_worker = {}
    /\ db_mapping = {}
    /\ db_migration = {}
    /\ mWorkerChan = <<>>
    /\ call = [c \in Calls |-> IdleCall]
    /\ shadowWrites = {}
    /\ db_instance = <<>>
    /\ mapCall = IdleMapCall
    /\ worker_metric = {}
    /\ migration_worker_hb = {}
    /\ migration_worker_jobs = {}
    /\ sweep = [i \in Inst |-> IdleSweep]
    /\ subtasks = {}
    /\ rechecks = {}
    /\ reports = 0
    /\ db_conn_err = {}
    /\ failCheck = [i \in Inst |-> IdleFailCheck]
    /\ wrap = IdleWrap
    /\ httpCall = IdleHttpCall
    /\ createReq = [q \in ReqIds |-> IdleRequest]
    /\ run = IdleRun

StepRun(q) ==
    \/ SendMWorkerRequest(q)
    \/ StartMigrationWorker(q)
    \/ CtxDone(q)
    \/ ChanWihTimeout(q)

NextRun == (\E q \in ReqIds : StepRun(q)) \/ RunReceive \/ RunReply

SpecRun == InitRun /\ [][NextRun]_vars

\* the Go scheduler runs the dispatcher and the goroutines it starts, and
\* the container runtime answers every call
FairSpecRun ==
    /\ SpecRun
    /\ WF_vars(RunReceive)
    /\ WF_vars(RunReply)
    /\ \A q \in ReqIds : WF_vars(StartMigrationWorker(q))

\* ============================================ GET /state and GET /health
\* ReaderPerfectionist.GetAllDbMappingInfo: the rows, or nil with a nil
\* error when every attempt failed
ReaderGetAllDbMappingInfo == {[rows |-> db_mapping, failed |-> FALSE],
                              [rows |-> {}, failed |-> TRUE]}

\* ReaderPerfectionist.Ping: nil when an attempt succeeded, and nil as well
\* when every attempt failed
ReaderPing == {[err |-> "", failed |-> FALSE], [err |-> "", failed |-> TRUE]}

GetSystemStateStateful(dbInstances, mappings) ==
    [panic |-> FALSE,
     infos |-> [k \in 1..(Len(dbInstances) - httpCall.calls) |->
                   [url |-> dbInstances[k], ranges |-> {}]],
     err |-> ""]

\* Scheduler.GetSystemState once both reads have returned.  mappingMap is
\* declared and never made: reading it gives nil, and the first mapping
\* the loop assigns to it panics.  The loop over the instances copies
\* mappingMap[url] into ranges when it is nil.
GetSystemState(dbInstances, mappings) ==
    LET mappingMap == [url \in {dbInstances[k] : k \in 1..Len(dbInstances)} |-> {}]
    IN  IF mappings # {}
          THEN [panic |-> TRUE, infos |-> <<>>, err |-> ""]
          ELSE [panic |-> FALSE,
                infos |-> [k \in 1..Len(dbInstances) |->
                             [url |-> dbInstances[k],
                              ranges |-> IF mappingMap[dbInstances[k]] = {}
                                           THEN mappingMap[dbInstances[k]]
                                           ELSE {}]],
                err |-> ""]

\* systemStateHandler: a shadow answers 403; a leader calls GetSystemState
\* and answers 500 on an error and 200 with the JSON of the result
\* otherwise; net/http recovers a panic and sends no answer
SystemStateHandler(i) ==
    /\ httpCall.calls < MaxHttpCalls
    /\ LET base == [IdleHttpCall EXCEPT !.inst = i, !.path = "/state",
                                        !.calls = httpCall.calls + 1,
                                        !.prior = httpCall.prior]
       IN  IF isShadow[i]
             THEN httpCall' = [base EXCEPT !.pc = "done",
                                           !.status = WriteHeader(0, 403)]
             ELSE \E dbInstances \in ReaderGetAllDbInstanceInfo,
                     mappings \in ReaderGetAllDbMappingInfo :
                    LET res == GetSystemState(dbInstances.rows, mappings.rows)
                        failed == dbInstances.failed \/ mappings.failed
                        r == [base EXCEPT
                                !.failed = failed,
                                !.result = res,
                                !.prior = Append(httpCall.prior,
                                            [result |-> res, failed |-> failed])]
                    IN  httpCall' =
                          IF res.panic THEN [r EXCEPT !.pc = "panic"]
                          ELSE [r EXCEPT !.pc = "done",
                                         !.status = WriteHeader(0,
                                            IF res.err # "" THEN 500 ELSE 200)]
    /\ UNCHANGED <<ctlVars, migVars, shadowWrites, mapVars, wrkVars, failVars,
                   wrap, createReq, run>>

\* Reconciler.PingDB: an error of the ping ends the process with
\* logger.Fatal; what is returned is nil
PingDB(err) == [fatal |-> err # "", err |-> ""]

\* health: 424 when PingDB returns an error, 200 otherwise
Health(i) ==
    /\ httpCall.calls < MaxHttpCalls
    /\ fatal[i] = ""
    /\ \E ping \in ReaderPing :
         LET res == PingDB(ping.err)
             base == [IdleHttpCall EXCEPT !.inst = i, !.path = "/health",
                                          !.calls = httpCall.calls + 1,
                                          !.failed = ping.failed,
                                          !.prior = httpCall.prior]
         IN  IF res.fatal
               THEN /\ Fatal(i, "pinging the database failed")
                    /\ httpCall' = [base EXCEPT !.pc = "dead"]
               ELSE /\ UNCHANGED <<pc, hb, loops, fatal>>
                    /\ httpCall' = [base EXCEPT
                          !.pc = "done",
                          !.status = WriteHeader(0,
                             IF res.err # "" THEN 424 ELSE 200)]
    /\ UNCHANGED <<isShadow, tx, tries, controller_status, now, storeFailures,
                   obsAge, promoted, migVars, shadowWrites, mapVars, wrkVars,
                   failVars, wrap, createReq, run>>

\* the rows the startup mapping writes for the instances dbInfos
StartupRows(dbInfos) ==
    {[id |-> MappingUuid(m.from, 1), url |-> m.url, from |-> m.from] :
        m \in CalculateStartupMapping(dbInfos).dbRanges}

\* up to MaxInstances database instances are registered; db_mapping is
\* empty or holds what the startup mapping wrote for them
InitHttp ==
    /\ db_instance \in {[k \in 1..n |-> Url(k)] : n \in 0..MaxInstances}
    /\ db_mapping \in {{}, StartupRows(db_instance)}
    /\ isShadow = [i \in Inst |-> i = "B"]
    /\ pc = [i \in Inst |-> IF i = "B" THEN "checkControllerUp" ELSE "select"]
    /\ hb = [i \in Inst |-> IF i = "B" THEN "off" ELSE "loop"]
    /\ loops = [i \in Inst |-> IF i = "B" THEN {} ELSE LeaderLoops]
    /\ tx = [i \in Inst |-> NoTx]
    /\ tries = [i \in Inst |-> 1]
    /\ controller_status = {[id |-> 0, scaling |-> FALSE, last_heartbeat |-> 0]}
    /\ now = 0
    /\ storeFailures = 0
    /\ obsAge = [i \in Inst |-> NoAge]
    /\ promoted = {}
    /\ fatal = [i \in Inst |-> ""]
    /\ migration_worker = {}
    /\ db_migration = {}
    /\ mWorkerChan = <<>>
    /\ call = [c \in Calls |-> IdleCall]
    /\ shadowWrites = {}
    /\ mapCall = IdleMapCall
    /\ worker_metric = {}
    /\ migration_worker_hb = {}
    /\ migration_worker_jobs = {}
    /\ sweep = [i \in Inst |-> IdleSweep]
    /\ subtasks = {}
    /\ rechecks = {}
    /\ reports = 0
    /\ db_conn_err = {}
    /\ failCheck = [i \in Inst |-> IdleFailCheck]
    /\ wrap = IdleWrap
    /\ httpCall = IdleHttpCall
    /\ createReq = [q \in ReqIds |-> IdleRequest]
    /\ run = IdleRun

NextHttp == \E i \in Inst : SystemStateHandler(i) \/ Health(i)

SpecHttp == InitHttp /\ [][NextHttp]_vars

\* ============================== RegisterController, one call after another
\* the container of an instance is started again (just restart, docker
\* restart) after main() got past RegisterController or ended in Fatal
Restart(i) ==
    /\ pc[i] \in {"checkControllerUp", "dead"}
    /\ pc' = [pc EXCEPT ![i] = "boot"]
    /\ hb' = [hb EXCEPT ![i] = "off"]
    /\ loops' = [loops EXCEPT ![i] = {}]
    /\ fatal' = [fatal EXCEPT ![i] = ""]
    /\ tx' = [tx EXCEPT ![i] = NoTx]
    /\ tries' = [tries EXCEPT ![i] = 1]
    /\ UNCHANGED auxVars
    /\ UNCHANGED <<isShadow, controller_status, now, storeFailures, obsAge,
                   promoted, shadowWrites, migVars>>

\* main() of a leader calls RegisterController while no other transaction
\* on controller_status is open
MainSuccessive(i) ==
    /\ \A j \in Inst : tx[j].op = "none"
    /\ Main(i)

\* both instances run with SHADOW=false; controller_status is empty or
\* holds the one row a previous controller left
InitReg ==
    /\ controller_status \in {{}} \cup {{[id |-> 0, scaling |-> s, last_heartbeat |-> 0]} :
                                        s \in BOOLEAN}
    /\ isShadow = [i \in Inst |-> FALSE]
    /\ pc = [i \in Inst |-> "boot"]
    /\ hb = [i \in Inst |-> "off"]
    /\ loops = [i \in Inst |-> {}]
    /\ tx = [i \in Inst |-> NoTx]
    /\ tries = [i \in Inst |-> 1]
    /\ now = 0
    /\ storeFailures = 0
    /\ obsAge = [i \in Inst |-> NoAge]
    /\ promoted = {}
    /\ fatal = [i \in Inst |-> ""]
    /\ migration_worker = {}
    /\ db_mapping = {}
    /\ db_migration = {}
    /\ mWorkerChan = <<>>
    /\ call = [c \in Calls |-> IdleCall]
    /\ shadowWrites = {}
    /\ db_instance = <<>>
    /\ mapCall = IdleMapCall
    /\ worker_metric = {}
    /\ migration_worker_hb = {}
    /\ migration_worker_jobs = {}
    /\ sweep = [i \in Inst |-> IdleSweep]
    /\ subtasks = {}
    /\ rechecks = {}
    /\ reports = 0
    /\ db_conn_err = {}
    /\ failCheck = [i \in Inst |-> IdleFailCheck]
    /\ wrap = IdleWrap
    /\ httpCall = IdleHttpCall
    /\ createReq = [q \in ReqIds |-> IdleRequest]
    /\ run = IdleRun

\* the heartbeat goroutines are left out: the calls of RegisterController
\* are the only writers of controller_status
NextReg ==
    \/ \E i \in Inst : MainSuccessive(i)
    \/ \E i \in Inst : TxGetControllerState(i)
    \/ \E i \in Inst : TxDeleteOldControllerHeartbeat(i)
    \/ \E i \in Inst : TxMust(i)
    \/ \E i \in Inst : TxCreateNewControllerHeartbeat(i)
    \/ \E i \in Inst : TxEngineError(i)
    \/ \E i \in Inst : Restart(i)
    \/ Tick

SpecReg == InitReg /\ [][NextReg]_vars

\* ==================== heartbeats and registrations on a table left behind
\* instance "A" boots as leader and instance "B" as its shadow, as
\* docker-compose.yaml starts them; controller_status is empty or holds
\* the one row an earlier run left
InitScal ==
    /\ controller_status \in {{}} \cup {{[id |-> 0, scaling |-> s, last_heartbeat |-> 0]} :
                                        s \in BOOLEAN}
    /\ isShadow = [i \in Inst |-> i = "B"]
    /\ pc = [i \in Inst |-> "boot"]
    /\ hb = [i \in Inst |-> "off"]
    /\ loops = [i \in Inst |-> {}]
    /\ tx = [i \in Inst |-> NoTx]
    /\ tries = [i \in Inst |-> 1]
    /\ now = 0
    /\ storeFailures = 0
    /\ obsAge = [i \in Inst |-> NoAge]
    /\ promoted = {}
    /\ fatal = [i \in Inst |-> ""]
    /\ migration_worker = {}
    /\ db_mapping = {}
    /\ db_migration = {}
    /\ mWorkerChan = <<>>
    /\ call = [c \in Calls |-> IdleCall]
    /\ shadowWrites = {}
    /\ db_instance = <<>>
    /\ mapCall = IdleMapCall
    /\ worker_metric = {}
    /\ migration_worker_hb = {}
    /\ migration_worker_jobs = {}
    /\ sweep = [i \in Inst |-> IdleSweep]
    /\ subtasks = {}
    /\ rechecks = {}
    /\ reports = 0
    /\ db_conn_err = {}
    /\ failCheck = [i \in Inst |-> IdleFailCheck]
    /\ wrap = IdleWrap
    /\ httpCall = IdleHttpCall
    /\ createReq = [q \in ReqIds |-> IdleRequest]
    /\ run = IdleRun

SpecScal == InitScal /\ [][NextCtl]_vars

\* ================== POST /migrate while the liveness loop of the leader runs
\* the startup mapping is written, the leader runs its loops;
\* migration_worker is empty or holds one free worker, whose heartbeat is
\* valid or not
InitJob ==
    /\ migration_worker_hb \in
          {{}} \cup {{[id |-> "0", last_heartbeat |-> h]} :
                       h \in {Timestamptz(TRUE, 0), Timestamptz(FALSE, ZeroTime)}}
    /\ migration_worker = {w.id : w \in migration_worker_hb}
    /\ isShadow = [i \in Inst |-> i = "B"]
    /\ pc = [i \in Inst |-> IF i = "B" THEN "checkControllerUp" ELSE "select"]
    /\ hb = [i \in Inst |-> IF i = "B" THEN "off" ELSE "loop"]
    /\ loops = [i \in Inst |-> IF i = "B" THEN {} ELSE LeaderLoops]
    /\ tx = [i \in Inst |-> NoTx]
    /\ tries = [i \in Inst |-> 1]
    /\ controller_status = {[id |-> 0, scaling |-> FALSE, last_heartbeat |-> 0]}
    /\ now = 0
    /\ storeFailures = 0
    /\ obsAge = [i \in Inst |-> NoAge]
    /\ promoted = {}
    /\ fatal = [i \in Inst |-> ""]
    /\ db_mapping = StartupMapping
    /\ db_migration = {}
    /\ mWorkerChan = <<>>
    /\ call = [c \in Calls |-> IdleCall]
    /\ shadowWrites = {}
    /\ db_instance = <<"u1", "u2">>
    /\ mapCall = IdleMapCall
    /\ worker_metric = {}
    /\ migration_worker_jobs = {}
    /\ sweep = [i \in Inst |-> IdleSweep]
    /\ subtasks = {}
    /\ rechecks = {}
    /\ reports = 0
    /\ db_conn_err = {}
    /\ failCheck = [i \in Inst |-> IdleFailCheck]
    /\ wrap = IdleWrap
    /\ httpCall = IdleHttpCall
    /\ createReq = [q \in ReqIds |-> IdleRequest]
    /\ run = IdleRun

\* the requests, the two passes of the liveness loop, and time
NextJob ==
    \/ \E c \in Calls : StepMig(c)
    \/ \E i \in Inst : EvaluateWorkerState(i)
    \/ \E i \in Inst : EvaluateMigrationWorkerState(i)
    \/ TickWrk

SpecJob == InitJob /\ [][NextJob]_vars

\* ============================ the launcher and the rows of the workers
\* RunMigration after ChanWihTimeout has returned an error: one attempt of
\* Writer.RemoveMigrationWorker under its retry wrapper, DELETE FROM
\* migration_worker WHERE id = $1 and the commit.  The engine fails on
\* fewer attempts than the wrapper makes, so the wrapper returns nil in
\* the end and the row is gone.
RemoveMigrationWorker(q) ==
    /\ createReq[q].caller = "returned"
    /\ createReq[q].got \notin {"", "nil"}
    /\ q \in migration_worker
    /\ \E engine \in (IF storeFailures < MaxRetries - 1 THEN {TRUE, FALSE}
                                                        ELSE {FALSE}) :
         LET oeErr == IF engine THEN Must("other", 0) ELSE Must("", 1)
         IN  /\ storeFailures' = IF engine THEN storeFailures + 1
                                           ELSE storeFailures
             /\ IF oeErr.err = ""
                  THEN /\ migration_worker' = migration_worker \ {q}
                       /\ migration_worker_hb' =
                             {w \in migration_worker_hb : w.id # q}
                  ELSE UNCHANGED <<migration_worker, migration_worker_hb>>
    /\ UNCHANGED <<mapVars, failVars, extVars, worker_metric,
                   migration_worker_jobs, sweep, subtasks, rechecks, reports>>
    /\ UNCHANGED <<isShadow, pc, hb, loops, tx, tries, controller_status, now,
                   obsAge, promoted, fatal, db_mapping, db_migration,
                   mWorkerChan, call, shadowWrites>>

\* RunMigration has inserted the row of every worker it is about to ask
\* the launcher for; no request was sent yet
InitSpawn ==
    /\ isShadow = [i \in Inst |-> i = "B"]
    /\ pc = [i \in Inst |-> IF i = "B" THEN "checkControllerUp" ELSE "select"]
    /\ hb = [i \in Inst |-> IF i = "B" THEN "off" ELSE "loop"]
    /\ loops = [i \in Inst |-> IF i = "B" THEN {} ELSE LeaderLoops]
    /\ tx = [i \in Inst |-> NoTx]
    /\ tries = [i \in Inst |-> 1]
    /\ controller_status = {[id |-> 0, scaling |-> FALSE, last_heartbeat |-> 0]}
    /\ now = 0
    /\ storeFailures = 0
    /\ obsAge = [i \in Inst |-> NoAge]
    /\ promoted = {}
    /\ fatal = [i \in Inst |-> ""]
    /\ migration_worker = ReqIds
    /\ db_mapping = {}
    /\ db_migration = {}
    /\ mWorkerChan = <<>>
    /\ call = [c \in Calls |-> IdleCall]
    /\ shadowWrites = {}
    /\ db_instance = <<>>
    /\ mapCall = IdleMapCall
    /\ worker_metric = {}
    /\ migration_worker_hb = {[id |-> q, last_heartbeat |-> Timestamptz(TRUE, 0)] : q \in ReqIds}
    /\ migration_worker_jobs = {}
    /\ sweep = [i \in Inst |-> IdleSweep]
    /\ subtasks = {}
    /\ rechecks = {}
    /\ reports = 0
    /\ db_conn_err = {}
    /\ failCheck = [i \in Inst |-> IdleFailCheck]
    /\ wrap = IdleWrap
    /\ httpCall = IdleHttpCall
    /\ createReq = [q \in ReqIds |-> IdleRequest]
    /\ run = IdleRun

\* the callers, the dispatcher, the goroutines it starts, and the rollback
NextSpawn ==
    \/ \E q \in ReqIds : StepRun(q)
    \/ RunReceive
    \/ RunReply
    \/ \E q \in ReqIds : RemoveMigrationWorker(q)

SpecSpawn == InitSpawn /\ [][NextSpawn]_vars

\* ================================================================ claims
ProtectedTables == {"controller_status", "db_migration", "migration_worker",
                    "db_mapping"}

\* C1: an instance whose shadow flag is true writes none of the tables
\* controller_status, db_migration, migration_worker and db_mapping,
\* whatever request it handles.
C1_ShadowWritesNothing == shadowWrites \cap ProtectedTables = {}

\* C2: at every transaction boundary controller_status holds at most one
\* row, for every interleaving of RegisterController and Heartbeat.
C2_AtMostOneControllerStatusRow == Cardinality(controller_status) <= 1

\* C3: a shadow whose check read a row older than
\* CONTROLLER_HEARTBEAT_TIMEOUT has left the shadow role before any further
\* check, and a shadow whose last check read a row no older than the
\* timeout is still a shadow.
C3_PromotionFollowsStaleHeartbeat ==
    \A i \in Inst :
       /\ (obsAge[i].row /\ obsAge[i].age > ControllerHeartbeatTimeout)
             => (~isShadow[i] /\ i \in promoted)
       /\ (obsAge[i].row /\ obsAge[i].age <= ControllerHeartbeatTimeout)
             => (isShadow[i] /\ i \notin promoted)

\* a shadow read a row older than the timeout, was promoted and runs the
\* heartbeat loop
C3_Witness ==
    \E i \in Inst :
       /\ obsAge[i].row
       /\ obsAge[i].age > ControllerHeartbeatTimeout
       /\ ~isShadow[i]
       /\ hb[i] = "loop"

\* C4: a promoted shadow eventually runs every leader loop: besides the
\* heartbeat, the liveness loop and the failure-rate loop (unless the
\* process ends first).
C4_PromotedRunsLeaderLoops ==
    \A i \in Inst :
       [](i \in promoted => <>(loops[i] = LeaderLoops \/ pc[i] = "dead"))

\* C5: entering the leader role performs RegisterController, which
\* tolerates a missing row: after a takeover that found no row, a row
\* appears (as long as the store does not fail).
C5_TakeoverRegisters ==
    \A i \in Inst :
       []((i \in promoted /\ controller_status = {} /\ storeFailures = 0)
             => <>(controller_status # {} \/ storeFailures > 0))

\* the db_migration rows of a migration worker
JobsOf(w) == {m \in db_migration : m.m_worker_id = w}

\* C6: when RunMigration(from, to, goal_url) has returned nil, the worker
\* it used has exactly one db_migration row, with status waiting and with
\* the from, to and url of the request.
C6_SuccessLeavesOneWaitingJob ==
    \A c \in Calls :
       call[c].returned = "nil" =>
          /\ Cardinality(JobsOf(call[c].migrationWorkerId)) = 1
          /\ \A m \in JobsOf(call[c].migrationWorkerId) :
                /\ m.status = "waiting"
                /\ m.from = call[c].from
                /\ m.to = call[c].to
                /\ m.url = call[c].goalUrl

\* a RunMigration call returned nil
C6_Witness == \E c \in Calls : call[c].returned = "nil" /\ call[c].job # {}

\* C7: a call that introduced a migration_worker row and got no container
\* for it (no spawn succeeds here: no request ever reaches the launcher)
\* returns, and the row is gone when it has returned.
C7_NoStrandedWorkerRow ==
    \A c \in Calls :
       [](call[c].addedWorker =>
             <>(/\ call[c].pc = "done"
                /\ call[c].migrationWorkerId \notin migration_worker))

\* C8: a call whose new worker was not spawned ends with an error: the
\* request is answered 500 and no db_migration row was inserted for it.
C8_FailedSpawnAnswers500 ==
    \A c \in Calls :
       []((call[c].addedWorker /\ ~isShadow[call[c].inst]) =>
             <>(/\ call[c].returned = "error"
                /\ call[c].status = 500
                /\ call[c].job = {}))

\* the request of call c names a db_mapping row
NamesMapping(c) ==
    \E x \in db_mapping : x.url = call[c].goalUrl /\ x.from = call[c].from

\* C9: a worker never has more than one db_migration row; and of two calls
\* that obtained the same free worker, once one has returned nil the other
\* one, when it is done, has returned the error of a UNIQUE violation
\* (its request naming a mapping, and the engine not having failed on
\* every one of its attempts).
C9_RaceOnFreeWorker ==
    /\ \A w \in migration_worker : Cardinality(JobsOf(w)) <= 1
    /\ \A c, d \in Calls :
          (/\ c # d
           /\ call[c].found # {}
           /\ call[c].found = call[d].found
           /\ call[d].returned = "nil"
           /\ call[c].pc = "done"
           /\ NamesMapping(c)
           /\ call[c].err # Must("other", 0).err)
             => (call[c].returned = "error" /\ call[c].err = Must("23505", 0).err)

\* two calls obtained the same free worker; one returned nil, the other
\* the UNIQUE violation
C9_Witness ==
    \E c, d \in Calls :
       /\ c # d
       /\ call[c].found # {}
       /\ call[c].found = call[d].found
       /\ call[d].returned = "nil"
       /\ call[c].returned = "error"
       /\ call[c].err = Must("23505", 0).err

\* C10: a call to which GetFreeMigrationWorker returned a worker uses that
\* worker's id, inserts no migration_worker row, sends no spawn request,
\* and the db_migration row it adds carries that worker's id.
C10_ReuseAddsNoWorker ==
    \A c \in Calls :
       call[c].found # {} =>
          /\ call[c].migrationWorkerId \in call[c].found
          /\ ~call[c].addedWorker
          /\ call[c].pc # "ChanWihTimeout"
          /\ \A k \in 1..Len(mWorkerChan) : mWorkerChan[k] \notin call[c].found
          /\ \A m \in db_migration :
                m.id \in call[c].job => m.m_worker_id \in call[c].found

\* a call reused the worker it found and its job was inserted
C10_Witness ==
    \E c \in Calls :
       /\ call[c].found # {}
       /\ call[c].returned = "nil"
       /\ \E m \in db_migration : m.id \in call[c].job

StartupRan ==
    /\ mapCall.pc \in {"done", "panic"}
    /\ mapCall.emptyAtStart
    /\ ~mapCall.readFailed
    /\ mapCall.failed = {}

\* C12: with 1 to 26 registered instances and db_mapping empty, the startup
\* mapping leaves exactly one db_mapping row per instance url, and the rows
\* have distinct from.
C12_OneRowPerInstance ==
    (StartupRan /\ Len(db_instance) \in 1..26) =>
       /\ Cardinality(db_mapping) = Len(db_instance)
       /\ \A k \in 1..Len(db_instance) :
             Cardinality({m \in db_mapping : m.url = db_instance[k]}) = 1
       /\ \A m1, m2 \in db_mapping : m1.from = m2.from => m1 = m2

\* C13: the row of the i-th instance (from 0) has the letter at index
\* i * floor(26 / n) of the alphabet.
C13_LetterAtFloorIndex ==
    (StartupRan /\ Len(db_instance) \in 1..26) =>
       \A k \in 1..Len(db_instance) : \A m \in db_mapping :
          m.url = db_instance[k] =>
             m.from = alphabet[(k - 1) * (26 \div Len(db_instance)) + 1]

StaleRow(w) ==
    \E r \in worker_metric :
       /\ r.id = w
       /\ \/ ~r.last_heartbeat.valid
          \/ now - r.last_heartbeat.time > WorkerHeartbeatTimeout

C16_UptimeRecheckSpares ==
    \A x \in rechecks : (x.kind = "uptime" /\ x.recovered) => ~x.deleted

\* C17: a worker flagged for its heartbeat whose re-read row shows a valid
\* heartbeat within the timeout is not deleted by the heartbeat re-check.
C17_HeartbeatRecheckSpares ==
    \A x \in rechecks : (x.kind = "heartbeat" /\ x.recovered) => ~x.deleted

\* a heartbeat re-check re-read a recovered heartbeat and left the row
C17_Witness ==
    \E x \in rechecks :
       /\ x.kind = "heartbeat"
       /\ x.recovered
       /\ ~x.deleted
       /\ \E r \in worker_metric : r.id = x.worker

\* C18: the removal of a migration worker is all or nothing: in one step
\* its row, its db_migration rows and its migration_worker_jobs rows all
\* go, or none of them changes.
C18_CascadeAllOrNothing ==
    [][\A id \in migration_worker :
          LET jobs(rows)  == {m \in rows : m.m_worker_id = id}
              joins(rows) == {j \in rows : j.worker_id = id}
          IN  IF id \notin migration_worker'
                THEN /\ jobs(db_migration') = {}
                     /\ joins(migration_worker_jobs') = {}
                     /\ \A j \in migration_worker_jobs' :
                           j.migration_id \in Ids(db_migration')
                ELSE /\ jobs(db_migration') = jobs(db_migration)
                     /\ joins(migration_worker_jobs') = joins(migration_worker_jobs)
      ]_vars

\* migration worker "0", whose heartbeat was not ok, is gone with its job
\* and its join row
C18_Witness ==
    /\ "0" \notin migration_worker
    /\ db_migration = {}
    /\ migration_worker_jobs = {}

\* the counts of the last half hour in what the last call of instance i
\* read: some cell, some worker or some database has more than n errors
SomeCountAbove(i, n) ==
    LET rows == {r \in failCheck[i].read :
                    r.fail_time > failCheck[i].at - FailureWindow}
        Cell(w, d) == Cardinality({r \in rows : r.worker_id = w /\ r.db_url = d})
        Row(w)     == Cardinality({r \in rows : r.worker_id = w})
        Col(d)     == Cardinality({r \in rows : r.db_url = d})
    IN  \/ \E w \in WorkerIds, d \in DbUrls : Cell(w, d) > n
        \/ \E w \in WorkerIds : Row(w) > n
        \/ \E d \in DbUrls : Col(d) > n

\* C19: the failure-rate check warns if and only if, over the db_conn_err
\* rows of the last 30 minutes, some cell, some worker's row sum or some
\* database's column sum is greater than 5.
C19_WarnsAboveFive ==
    \A i \in Inst :
       failCheck[i].invoked > 0 =>
          (failCheck[i].warnings # {} <=> SomeCountAbove(i, 5))

\* C20: on a running leader whose check returned no error, the task of
\* the failure-rate check does not end, and no more than five minutes pass
\* without a call of the check.
C20_CheckedEveryFiveMinutes ==
    \A i \in Inst :
       ("CheckFailureRate" \in loops[i] /\ fatal[i] = "") =>
          /\ failCheck[i].pc # "ended"
          /\ failCheck[i].invoked > 0 =>
                now - failCheck[i].at <= FailureRateSleep

\* C21: in every wrapper, reader and writer, a terminal error returned by
\* the first call of the wrapped method ends the wrapper call: the wrapped
\* method was called exactly once, no backoff sleep was made, and the
\* wrapper returned that error.
C21_TerminalFirstAttemptOneCall ==
    (wrap.pc # "idle" /\ Len(wrap.errs) >= 1 /\ wrap.errs[1] = "terminal")
       => /\ wrap.pc = "returned"
          /\ wrap.calls = 1
          /\ wrap.slept = <<>>
          /\ wrap.ret # "nil"

\* every call of the wrapped method so far failed with a reconcilable error
AllReconcilable(w) ==
    \A k \in 1..Len(w.errs) : w.errs[k] = "reconcilable"

\* C22: in every wrapper, reader and writer, MAX_RETRIES reconcilable
\* failures in a row make exactly MAX_RETRIES calls of the wrapped method
\* and then return an error that is not nil, never a zero value with a nil
\* error; a call of the wrapped method that succeeds ends the wrapper call
\* at once, with nil and the value read, after as many calls as attempts.
C22_ExhaustedReturnsLastError ==
    /\ wrap.calls <= MaxRetries
    /\ wrap.calls = Len(wrap.errs)
    /\ (Len(wrap.errs) = MaxRetries /\ AllReconcilable(wrap))
          => /\ wrap.pc = "returned"
             /\ wrap.calls = MaxRetries
             /\ wrap.ret # "nil"
             /\ ~wrap.zero
    /\ (Len(wrap.errs) >= 1 /\ wrap.errs[Len(wrap.errs)] = "ok")
          => /\ wrap.pc = "returned"
             /\ wrap.ret = "nil"
             /\ ~wrap.zero

\* the sleep the schedule of BACKOFF_TYPE type gives after the i-th failed
\* attempt, in microseconds, for a base of whole milliseconds: base^i ms
\* for exp and for an unknown type, i * base for lin
ScheduledSleep(type, base, i) ==
    IF type = "lin" THEN i * base
    ELSE Pow(base, i) \div Pow(1000, i - 1)

\* C23: the sleep after the i-th failed attempt follows the schedule that
\* BACKOFF_TYPE names: base^i milliseconds for exp, i * base for lin, and
\* the schedule of exp for an unknown value, base being INIT_RETRY_BACKOFF.
C23_SleepFollowsBackoffType ==
    \A k \in 1..Len(wrap.slept) :
       wrap.slept[k] * 1000 =
          ScheduledSleep(wrap.backoffTypeInput, wrap.initialBackoff, k)

\* the dispatcher has taken request q
Taken(q) == createReq[q].pc \in {"taken", "replied"}

\* the replies the dispatcher may send for a request: the outcome of the
\* runtime call, or the cancellation error of a context that is cancelled
ReplyOf(r) ==
    {"nil", "there was an error creating the migration worker"}
      \cup (IF r.ctx = "active" THEN {} ELSE {"context canceled"})

\* C24: for every spawn request the dispatcher takes from mWorkerChan
\* exactly one reply is delivered on the ResponseChan of the request: never
\* two, once the dispatcher is through with the request and is back at its
\* outer select one, and eventually one; the reply is the outcome of the
\* runtime call or the cancellation error of the request's context; and the
\* send never blocks the dispatcher, also after the caller has stopped
\* waiting.
C24_ExactlyOneReply ==
    /\ [](\A q \in ReqIds :
            /\ Len(createReq[q].replies) <= 1
            /\ ~Taken(q) => createReq[q].replies = <<>>
            /\ createReq[q].pc = "replied" => Len(createReq[q].replies) = 1
            /\ (Taken(q) /\ run.req # q) => Len(createReq[q].replies) = 1
            /\ \A k \in 1..Len(createReq[q].replies) :
                  createReq[q].replies[k] \in ReplyOf(createReq[q]))
    /\ [](run.pc # "blocked")
    /\ \A q \in ReqIds :
          (createReq[q].pc = "taken") ~> (Len(createReq[q].replies) = 1)

\* the caller of a request gave up after five seconds, and the dispatcher
\* delivered the reply afterwards without blocking; the other request was
\* answered with the cancellation error of its context
C24_Witness ==
    \E q, p \in ReqIds :
       /\ q # p
       /\ createReq[q].got = "ErrCreateTimeout"
       /\ createReq[q].replies = <<"nil">>
       /\ createReq[q].ResponseChan.buf = <<"nil">>
       /\ createReq[p].replies = <<"context canceled">>
       /\ run = IdleRun

\* C25: a shadow answers every POST /mapping/startup, POST /migrate and
\* GET /state request with 403, whatever the request carries, and an
\* instance whose flag is false answers none of them with 403.
C25_ShadowAnswers403 ==
    /\ mapCall.pc \in {"done", "panic"}
          => (mapCall.status = 403 <=> isShadow[mapCall.inst])
    /\ \A c \in Calls :
          call[c].pc = "done" => (call[c].status = 403 <=> isShadow[call[c].inst])
    /\ (httpCall.path = "/state" /\ httpCall.pc \in {"done", "panic"})
          => (httpCall.status = 403 <=> isShadow[httpCall.inst])

\* C26: GET /health answers 200 when the store is reachable and 424 when
\* every ping attempt failed; it always answers.
C26_HealthAnswers424 ==
    httpCall.path = "/health"
       => /\ httpCall.pc = "done"
          /\ httpCall.status = IF httpCall.failed THEN 424 ELSE 200

\* the join of db_instance and db_mapping by url
JoinByUrl ==
    [k \in 1..Len(db_instance) |->
        [url |-> db_instance[k],
         ranges |-> {m \in db_mapping : m.url = db_instance[k]}]]

\* C27: a call of GetSystemState whose reads succeeded returns normally,
\* also when db_mapping holds rows, with one entry per row of db_instance
\* whose ranges are exactly the rows of db_mapping with that url.
C27_StateJoinsByUrl ==
    \A k \in 1..Len(httpCall.prior) :
       ~httpCall.prior[k].failed
          => /\ ~httpCall.prior[k].result.panic
             /\ httpCall.prior[k].result.err = ""
             /\ httpCall.prior[k].result.infos = JoinByUrl

\* the rows of all tables
Tables == <<controller_status, migration_worker, migration_worker_hb,
            migration_worker_jobs, db_mapping, db_migration, db_instance,
            worker_metric, db_conn_err>>

C29_RegisterControllerIdempotent ==
    [][\A i \in Inst :
          (/\ tx[i].op = "RegisterController"
           /\ pc[i] = "RegisterController"
           /\ pc'[i] = "checkControllerUp")
             => /\ Cardinality(controller_status') = 1
                /\ \A old \in controller_status, new \in controller_status' :
                      new.scaling = old.scaling]_vars

\* both instances have registered, one after the other: the table holds
\* one row, written after the row the first call found, and scaling is
\* still true
C29_Witness ==
    /\ \A i \in Inst : pc[i] = "checkControllerUp"
    /\ \A i \in Inst : tx[i].op = "none"
    /\ now > 0
    /\ \E r \in controller_status :
          /\ controller_status = {r}
          /\ r.scaling
          /\ r.last_heartbeat = now

\* the role of an instance: Booting until main() has read SHADOW and gone
\* on, then Shadow or Leader by the flag, Terminated after logger.Fatal
Role(i) ==
    IF pc[i] = "dead" THEN "Terminated"
    ELSE IF pc[i] = "boot" THEN "Booting"
    ELSE IF isShadow[i] THEN "Shadow"
    ELSE "Leader"

\* C30: the role of an instance changes only from Booting to Leader, from
\* Booting to Shadow and from Shadow to Leader, or the instance terminates;
\* the shadow flag is written only by the promotion step of
\* checkControllerUp, and a flag that is false stays false.
C30_RoleTransitions ==
    [][\A i \in Inst :
          /\ isShadow'[i] # isShadow[i]
                => /\ isShadow[i]
                   /\ ~isShadow'[i]
                   /\ pc[i] = "checkControllerUp"
                   /\ pc'[i] = "heartbeat"
                   /\ i \in promoted'
          /\ ~isShadow[i] => ~isShadow'[i]
          /\ Role(i)' # Role(i)
                => \/ <<Role(i), Role(i)'>> \in {<<"Booting", "Leader">>,
                                                 <<"Booting", "Shadow">>,
                                                 <<"Shadow", "Leader">>}
                   \/ Role(i)' = "Terminated"]_vars

\* one instance booted as leader and terminated, the other booted as
\* shadow and became leader by the promotion step
C30_Witness ==
    \E i, j \in Inst :
       /\ Role(i) = "Terminated"
       /\ Role(j) = "Leader"
       /\ j \in promoted
       /\ pc[j] = "heartbeat"

\* C31: when controller_status holds no row, the call of the shadow's
\* controller-up check that ends on its last attempt treats the leader as
\* crashed: the shadow is promoted and goes on to the heartbeat loop; it
\* neither terminates with a fatal error nor stays a shadow.
C31_MissingRowIsCrashed ==
    [][\A i \in Inst :
          (/\ isShadow[i]
           /\ pc[i] = "checkControllerUp"
           /\ controller_status = {}
           /\ tries[i] = MaxRetries
           /\ tries'[i] = 1)
             => /\ ~isShadow'[i]
                /\ i \in promoted'
                /\ pc'[i] = "heartbeat"
                /\ fatal'[i] = ""]_vars

\* a shadow was promoted without having read a row, the table is empty
C31_Witness ==
    \E i \in Inst :
       /\ controller_status = {}
       /\ i \in promoted
       /\ ~obsAge[i].row
       /\ ~isShadow[i]
       /\ pc[i] = "heartbeat"

\* C32: every call of RunMigration eventually returns, with nil or with an
\* error, also when no free worker exists and a migration_worker row has
\* to be inserted; it is never left waiting.
C32_RunMigrationReturns ==
    \A c \in Calls :
       (call[c].pc = "GetFreeMigrationWorker") ~> (call[c].pc = "done")

\* the errors that tell the caller its context was cancelled
IsCancellation(ret) ==
    ret \in {"context canceled", "beginning transaction: context canceled"}

\* C33: a wrapper whose context is cancelled after a failed attempt
\* returns a cancellation error as its next step: it makes no further call
\* of the wrapped method and sleeps no further backoff.
C33_CancelledStopsRetrying ==
    [][(/\ wrap.pc = "loop"
        /\ wrap.ctx = "cancelled"
        /\ wrap.calls >= 1
        /\ wrap' # wrap)
          => /\ wrap'.pc = "returned"
             /\ IsCancellation(wrap'.ret)
             /\ wrap'.calls = wrap.calls
             /\ wrap'.slept = wrap.slept]_vars

\* C34: a failed Heartbeat is only logged: when a call of Heartbeat
\* returns, with nil or with an error, the instance keeps running, its
\* heartbeat loop goes on to the next iteration and nothing fatal happened.
C34_HeartbeatFailureOnlyLogged ==
    [][\A i \in Inst :
          (tx[i].op = "Heartbeat" /\ tx'[i].op = "none")
             => /\ pc'[i] = pc[i]
                /\ hb'[i] = "loop"
                /\ fatal'[i] = ""]_vars

\* instance i starts an iteration of the liveness loop in this step
SweepStarts(i) == sweep[i].pc = "sleep" /\ sweep'[i] # sweep[i]

\* a re-check goroutine ends in this step with a RemoveWorker that ran in
\* the engine and affected no row, which utils.Must makes a terminal error
TerminalRemove(t) ==
    /\ t \in subtasks
    /\ t \notin subtasks'
    /\ t.pc \in {"RemoveWorker", "RemoveWorker160"}
    /\ storeFailures' = storeFailures
    /\ \A w \in worker_metric : w.id # t.worker

\* C35: in the liveness loop a reconcilable store error aborts the
\* iteration and not the loop: an iteration whose read failed starts no
\* re-check, skips the rest of the iteration and sleeps until one interval
\* after its start, and the instance keeps running; a terminal store error
\* is fatal to the leader.
C35_LivenessErrorHandling ==
    [][/\ \A i \in Inst :
            (SweepStarts(i) /\ storeFailures' > storeFailures)
               => /\ subtasks' = subtasks
                  /\ sweep'[i].pc = "sleep"
                  /\ sweep'[i].next = now + CheckWorkerBackoff
                  /\ fatal'[i] = ""
       /\ (\E t \in subtasks : TerminalRemove(t))
               => \E i \in Inst : RunsLoops(i) /\ fatal'[i] # ""]_vars

\* C36: Heartbeat and RegisterController leave scaling as it is: every row
\* one of them inserts carries the scaling value its transaction read,
\* which is the value of every row the table held (false when it held
\* none), so no sequence of them changes scaling.
C36_ScalingPreserved ==
    [][\A new \in controller_status' \ controller_status :
          /\ \E i \in Inst : /\ tx[i].step = "CreateNewControllerHeartbeat"
                             /\ new.scaling = tx[i].scaling
          /\ \A old \in controller_status : new.scaling = old.scaling
          /\ controller_status = {} => ~new.scaling]_vars

\* a leader that registered on a table whose row had scaling true is in a
\* heartbeat that read true and is about to insert its row
C36_Witness ==
    \E i \in Inst :
       /\ hb[i] = "loop"
       /\ i \notin promoted
       /\ tx[i].op = "Heartbeat"
       /\ tx[i].step = "CreateNewControllerHeartbeat"
       /\ tx[i].scaling
       /\ tx[i].deleted # {}
       /\ \A r \in controller_status : r.scaling

\* what a write may end with: no error, the three constraint violations,
\* a serialization failure, a lost connection
SqlStates == {"", "23505", "23503", "23502", "40001", "other"}

\* the class the store adapter is to give a write that ended with
\* SQLSTATE code ("" for none) and affected n rows
ClassOf(code, n) ==
    IF code \in {"23505", "23503", "23502"} THEN "terminal"
    ELSE IF code # "" THEN "reconcilable"
    ELSE IF n = 0 THEN "terminal"
    ELSE "ok"

\* the error texts of the terminal outcomes
TerminalErrs == {"UNIQUE violation", "FOREIGN KEY violation",
                 "NOT NULL violation", "no rows affected"}

\* C37: utils.Must classifies every write outcome: a uniqueness,
\* foreign-key or not-null violation and a write that affected no row are
\* terminal, every other engine error is reconcilable, and only a write
\* without error that affected at least one row is a success; the last
\* call of a writer wrapper that has returned shows that class.
C37_MustClassifiesWrites ==
    /\ \A code \in SqlStates, n \in 0..2 :
          Outcome(Must(code, n)) = ClassOf(code, n)
    /\ (wrap.kind = "WriterPerfectionist" /\ wrap.pc = "returned")
          => LET class == wrap.errs[Len(wrap.errs)]
             IN  /\ wrap.ret = "nil" <=> class = "ok"
                 /\ wrap.ret \in TerminalErrs <=> class = "terminal"
                 /\ wrap.ret \notin TerminalErrs \cup {"nil"}
                       <=> class = "reconcilable"

\* RemoveWorker for a worker that is gone: the delete ran and affected no
\* row, and the wrapper returned that as a terminal error after one call
C37_Witness ==
    /\ wrap.kind = "WriterPerfectionist"
    /\ wrap.op = "RemoveWorker"
    /\ wrap.pc = "returned"
    /\ wrap.calls = 1
    /\ wrap.errs = <<"terminal">>
    /\ wrap.ret = "no rows affected"

\* C38: every db_migration row refers to a migration_worker row, however
\* the calls of RunMigration and the passes of the liveness loop
\* interleave: no job is inserted for a worker that was removed between
\* the lookup of a free worker and the insert of the job.
C38_JobRefersToWorker ==
    \A m \in db_migration : m.m_worker_id \in migration_worker

\* a call was given the free worker "0", the liveness loop removed that
\* worker, and the insert of the job was refused
C38_Witness ==
    \E c \in Calls :
       /\ call[c].found = {"0"}
       /\ "0" \notin migration_worker
       /\ call[c].pc = "done"
       /\ call[c].err = "FOREIGN KEY violation"
       /\ call[c].job = {}

\* C39: at no time are two live instances both leaders: when a shadow
\* promotes itself on a heartbeat row it has read and found older than the
\* timeout, no other instance, dead or only delayed, is a leader any more.
C39_PromotionFencesLeader ==
    [][\A i \in Inst :
          /\ pc[i] = "checkControllerUp"
          /\ isShadow[i]
          /\ ~isShadow'[i]
          /\ obsAge'[i].row
          => \A j \in Inst \ {i} : Role(j)' # "Leader"]_vars

\* startMigrationWorker has returned nil for request q: its container was
\* created and started (the result waits in funcRes or was sent on as the
\* reply nil)
ContainerStarted(q) ==
    \/ createReq[q].funcRes = <<"nil">>
    \/ \E k \in 1..Len(createReq[q].replies) : createReq[q].replies[k] = "nil"

====
